---- MODULE Spec2Model ----
(***************************************************************************)
(* A model of cursor-free-vip: the credential patcher (cursor_auth.py),   *)
(* the machine-ID resetter (reset_machine_manual.py), the signup flow     *)
(* (new_signup.py, cursor_register.py), the CLI menu (main.py), the       *)
(* configuration loader (config.py), the version comparison of the        *)
(* version bypass (bypass_version.py), the build script (build.py) and    *)
(* the process quitter (quit_cursor.py), the text of the JavaScript files  *)
(* under the patch steps of reset_machine_manual.py and                    *)
(* totally_reset_cursor.py, and the OAuth sign-in (oauth_auth.py).         *)
(*                                                                         *)
(* Each component has its own specification over the variables it owns:    *)
(* SpecDb, SpecSignup, SpecMenu, SpecReset, SpecCfg, SpecVer, SpecBuild,   *)
(* SpecQuit, SpecPatch and SpecOauth. While one component runs the others rest in their idle    *)
(* state; the signup flow alone also writes the state database, when it    *)
(* stores the credentials of the new account.                              *)
(***************************************************************************)
EXTENDS Integers, Sequences, FiniteSets, TLC

(***************************************************************************)
(* Bounds of the model.                                                    *)
(***************************************************************************)
\* number of database operations in one run
MaxOps == 2
\* number of choices read at the menu prompt
MaxChoices == 2
\* number of runs of the machine-ID resetter
MaxResets == 2
\* number of calls that load the configuration
MaxCfgOps == 3
\* length of a version string, in characters
MaxVerLen == 3
\* number of runs of one patch step on one file
MaxPatchRuns == 2
\* length of workbench.desktop.main.js and of the main.js of reset_machine_manual.py, in tokens
MaxJsLen == 3
\* length of the main.js of totally_reset_cursor.py, in tokens
MaxMainJsLen == 7
\* number of times the OAuth sign-in is started again after an account was deleted
MaxRestarts == 2
\* the largest timeout of quit_cursor, in sleeps of its waiting loop
MaxTimeout == 2

(***************************************************************************)
(* The SQLite state database: state.vscdb with its ItemTable.              *)
(***************************************************************************)
VARIABLES
    dbFile,       \* "missing" | "present": os.path.exists(self.db_path)
    hasTable,     \* the file holds a table named ItemTable
    ItemTable,    \* the committed rows, in rowid order: <<[key, value], ...>>
    dbOp,         \* the last operation run: "none" | "update_auth" | "update_sqlite_db"
    dbArgs,       \* the key/value pairs that operation was asked to write
    dbFault,      \* the fault injected into that operation (NoFault: none)
    dbPre,        \* the database before that operation, and the operation before it
    dbResult,     \* what the operation returned: "none" | "True" | "False"
    dbOps,        \* operations run so far
    conns,        \* the operations that opened a connection nothing has closed
    dbCall        \* the arguments the last update_auth was called with

dbVars == <<dbFile, hasTable, ItemTable, dbOp, dbArgs, dbFault, dbPre, dbResult, dbOps,
            conns, dbCall>>

\* the signup flow (new_signup.py, cursor_register.py)
VARIABLES
    sPc,            \* position of the run
    hasController,  \* controller has a get_verification_code method
    hasEmailTab,    \* email_tab is not None
    psutilWorks,    \* psutil can be imported and lists the processes
    spawned,        \* browser processes launched by setup_driver
    running,        \* those of them that have not ended
    tracked,        \* _chrome_process_ids
    killed,         \* processes that were sent a kill
    stepsRun,       \* the steps of the flow, in the order they were started
    turnstileFor,   \* the step that called handle_turnstile
    retry_count,    \* handle_turnstile's retry_count
    attempt,        \* handle_verification_code's poll: iterations of range(max_attempts) begun
    attempts,       \* _get_account_info's attempts
    poll,           \* the polling loop that runs or ran last: "none" | "turnstile" | "code" | "token"
    tries,          \* executions of the body of the polling loop that runs or ran last
    pollEnd,        \* how that loop ended: "none" | "found" | "exhausted" | "timeout" | "error"
    pollRet,        \* what the polling step returned
    vcRet,          \* what handle_verification_code returned
    mainRet,        \* what new_signup.main returned: "none" | "True" | "False"
    regRet,         \* what register_cursor returned: "none" | "True" | "False"
    userChrome,     \* the Chrome processes the user started
    before_pids     \* setup_driver's list of the Chrome processes before the launch

signupVars == <<sPc, hasController, hasEmailTab, psutilWorks, spawned, running, tracked,
                killed, stepsRun, turnstileFor, retry_count, attempt, attempts, poll,
                tries, pollEnd, pollRet, vcRet, mainRet, regRet, userChrome, before_pids>>

\* the CLI menu (main.py)
VARIABLES
    mPc,        \* "idle" | "prompt" | "dispatch" | "handle" | "ended"
    choice,     \* what input() returned at the prompt
    mEnv,       \* the environment the dispatched operation ran in
    calledOp,   \* the module entry point the choice called ("none": none was called)
    opRaised,   \* the exception that left the dispatched code ("none": it returned)
    opRet,      \* what the entry point returned
    menuShown,  \* print_menu ran since the last choice was read
    mEnd,       \* why main ended: "none" | "exit" | "KeyboardInterrupt" | "SystemExit"
    rounds      \* choices read so far

menuVars == <<mPc, choice, mEnv, calledOp, opRaised, opRet, menuShown, mEnd, rounds>>

\* the machine-ID resetter (reset_machine_manual.py)
VARIABLES
    rPc,        \* position of reset()
    content,    \* per file: "absent" | "original" | "written"
    backup,     \* per file, its .bak/.backup copy: "absent" | "original" | "written"
    unsaved,    \* files whose existing content was overwritten while no copy of the file existed
    patchRet,   \* what the last step returned: "none" | "True" | "False"
    resets,     \* runs of reset() started so far
    anyFailed,  \* a step of the current run of reset() returned False
    resetRet,   \* what reset() returned: "none" | "True" | "False"
    idsIn       \* per store of the identifiers: the run of reset() whose generated
                \* set it holds (0: what it held before the first run)

resetVars == <<rPc, content, backup, unsaved, patchRet, resets, anyFailed, resetRet, idsIn>>

\* the configuration file (config.py)
VARIABLES
    cfgEnv,      \* the platform and what the defaults are computed from
    cfgFile,     \* config.ini: "missing" or its lines, each a sequence of characters
    cfgBackup,   \* the config.ini.bak.<time> copy force_update_config made last
    cfgObj,      \* the configuration the last call returned ("None": it failed)
    cfgWritten,  \* the configuration written by the last config.write ("None": none yet)
    cfgPre,      \* cfgWritten before the last call
    cfgOp,       \* the last call: "none" | "setup_config" | "force_update_config" | "main"
    cfgOps       \* calls so far

cfgVars == <<cfgEnv, cfgFile, cfgBackup, cfgObj, cfgWritten, cfgPre, cfgOp, cfgOps>>

\* the version comparison (bypass_version.py)
VARIABLES
    version1,   \* compare_versions' first argument, a sequence of characters
    version2,   \* its second argument
    verPc,      \* "idle" | "called" | "returned"
    cvRet       \* what compare_versions did: the exception it raised or the value it returned

verVars == <<version1, version2, verPc, cvRet>>

\* the build script (build.py): build() and the thread of its LoadingAnimation
VARIABLES
    bPc,               \* position of build()
    system,            \* platform.system().lower()
    loading,           \* build's local variable: "unbound" | "bound"
    is_running,        \* LoadingAnimation.is_running
    animation_thread,  \* "None" | "created" | "started" | "ended"
    idx,               \* _animate's idx, modulo len(animation)
    threadsStarted,    \* threads started so far
    inHandler,         \* build is in its except clause
    buildExc,          \* the exception that is being handled or left build()
    buildRet           \* what build() returned: "none" | "True" | "False"

buildVars == <<bPc, system, loading, is_running, animation_thread, idx, threadsStarted,
               inHandler, buildExc, buildRet>>

\* quitting Cursor (quit_cursor.py)
VARIABLES
    qPc,               \* position of CursorQuitter.quit_cursor
    timeout,           \* self.timeout, in units of the loop's sleep of 0.5 s
    alive,             \* the Cursor processes that run
    cursor_processes,  \* the processes quit_cursor found
    elapsed,           \* time.time() - start_time, in the same units
    still_running,     \* the loop's local variable: unbound, or the processes it holds
    quitRet            \* what quit_cursor returned: "none" | "True" | "False"

quitVars == <<qPc, timeout, alive, cursor_processes, elapsed, still_running, quitRet>>

\* the text of one JavaScript file under one patch step
VARIABLES
    jsFn,     \* the patch step that is run on the file
    jsText,   \* the content of the file, a sequence of tokens
    jsRuns    \* per finished run of the step: the text it left and what it returned

patchVars == <<jsFn, jsText, jsRuns>>

\* the OAuth sign-in (oauth_auth.py)
VARIABLES
    oPc,         \* position of main and of the handler calls it has open
    auth_type,   \* the argument of main, self.auth_type of the handler
    depth,       \* number of handle_*_auth calls open inside _wait_for_auth
    usage,       \* usage_text of the settings page, as current and limit
    authEmail,   \* the email _wait_for_auth has read
    handlerRet,  \* what the handle_*_auth call that ended last returned
    oauthRet     \* what main returned: "none" | "True" | "False" | "TypeError"

oauthVars == <<oPc, auth_type, depth, usage, authEmail, handlerRet, oauthRet>>

\* the components added last
lastVars == <<patchVars, oauthVars>>

\* the components added to the first five
moreVars == <<verVars, buildVars, quitVars, lastVars>>

\* what an action of one component leaves alone: the other components
OnlyDb == UNCHANGED <<signupVars, menuVars, resetVars, cfgVars, moreVars>>
OnlySignup == UNCHANGED <<dbVars, menuVars, resetVars, cfgVars, moreVars>>
OnlyMenu == UNCHANGED <<dbVars, signupVars, resetVars, cfgVars, moreVars>>
OnlyReset == UNCHANGED <<dbVars, signupVars, menuVars, cfgVars, moreVars>>
OnlyCfg == UNCHANGED <<dbVars, signupVars, menuVars, resetVars, moreVars>>
firstVars == <<dbVars, signupVars, menuVars, resetVars, cfgVars>>
OnlyVer == UNCHANGED <<firstVars, buildVars, quitVars, lastVars>>
OnlyBuild == UNCHANGED <<firstVars, verVars, quitVars, lastVars>>
OnlyQuit == UNCHANGED <<firstVars, verVars, buildVars, lastVars>>
OnlyPatch == UNCHANGED <<firstVars, verVars, buildVars, quitVars, oauthVars>>
OnlyOauth == UNCHANGED <<firstVars, verVars, buildVars, quitVars, patchVars>>

None == "None"
Vals == {"v1", "v2"}
\* the values of the two tokens and of the ids other than devDeviceId
Tokens == {"v1"}

\* cursor_auth.py: the fixed key names
KeySignUpType == "cursorAuth/cachedSignUpType"
KeyEmail == "cursorAuth/cachedEmail"
KeyAccessToken == "cursorAuth/accessToken"
KeyRefreshToken == "cursorAuth/refreshToken"
\* a row of the application that no operation of this program names
KeyOther == "workbench.other"
\* reset_machine_manual.py: the identifier keys
KeyDevDeviceId == "telemetry.devDeviceId"
KeyMacMachineId == "telemetry.macMachineId"
KeyMachineId == "telemetry.machineId"
KeySqmId == "telemetry.sqmId"
KeyServiceMachineId == "storage.serviceMachineId"

Row(k, v) == [key |-> k, value |-> v]

\* SELECT COUNT(*) FROM ItemTable WHERE key = ?
CountKey(t, k) == Cardinality({i \in DOMAIN t : t[i].key = k})

\* INSERT INTO ItemTable (key, value) VALUES (?, ?)
InsertRow(t, k, v) == Append(t, Row(k, v))

\* UPDATE ItemTable SET value = ? WHERE key = ?
UpdateRows(t, k, v) == [i \in DOMAIN t |-> IF t[i].key = k THEN Row(k, v) ELSE t[i]]


\* rows of t whose key is not k, in order
WithoutKey(t, k) == SelectSeq(t, LAMBDA r : r.key # k)

\* INSERT OR REPLACE INTO ItemTable (key, value) VALUES (?, ?): the row that
\* conflicts on the primary key is deleted, then the new row is inserted
InsertOrReplace(t, k, v) == Append(WithoutKey(t, k), Row(k, v))

\* an upsert that never looks for the key
UpsertPairAlwaysInserts(t, k, v) == InsertRow(t, k, v)

\* update_auth's loop body: SELECT COUNT, then INSERT or UPDATE
UpsertPair(t, k, v) ==
    IF CountKey(t, k) = 0 THEN InsertRow(t, k, v) ELSE UpdateRows(t, k, v)

\* the first n pairs of ups written by update_auth's loop
RECURSIVE ApplyUpserts(_, _, _)
ApplyUpserts(t, ups, n) ==
    IF n = 0 THEN t
    ELSE LET u == ups[n] IN UpsertPair(ApplyUpserts(t, ups, n - 1), u.key, u.value)

\* the first n pairs of ups written by update_sqlite_db's loop
RECURSIVE ApplyReplaces(_, _, _)
ApplyReplaces(t, ups, n) ==
    IF n = 0 THEN t
    ELSE LET u == ups[n] IN InsertOrReplace(ApplyReplaces(t, ups, n - 1), u.key, u.value)

\* an updates list that holds all four pairs, whatever the arguments
AuthUpdatesOfAllArguments(email, access_token, refresh_token) ==
    <<Row(KeySignUpType, "Auth_0"), Row(KeyEmail, email),
      Row(KeyAccessToken, access_token), Row(KeyRefreshToken, refresh_token)>>

\* update_auth's updates list: the sign-up type always, the others when given
AuthUpdates(email, access_token, refresh_token) ==
    <<Row(KeySignUpType, "Auth_0")>>
    \o (IF email # None THEN <<Row(KeyEmail, email)>> ELSE <<>>)
    \o (IF access_token # None THEN <<Row(KeyAccessToken, access_token)>> ELSE <<>>)
    \o (IF refresh_token # None THEN <<Row(KeyRefreshToken, refresh_token)>> ELSE <<>>)

\* generate_new_ids: fresh random identifiers; serviceMachineId repeats devDeviceId
NewIds(dev, mac, machine, sqm) ==
    <<Row(KeyDevDeviceId, dev), Row(KeyMacMachineId, mac), Row(KeyMachineId, machine),
      Row(KeySqmId, sqm), Row(KeyServiceMachineId, dev)>>

(* Faults of one operation: none, the connection cannot be opened, the n-th  *)
(* write raises sqlite3.Error (database locked, disk full), COMMIT raises.   *)
NoFault == 0
ConnectFault == -1
CommitFault(ups) == Len(ups) + 1
Faults(ups) == {ConnectFault, NoFault} \cup (1 .. Len(ups) + 1)

\* a ROLLBACK that undoes nothing
RollbackKeepsWork(snapshot, work) == work

\* ROLLBACK: the rows are those of BEGIN TRANSACTION
Rollback(snapshot, work) == snapshot

\* update_auth creates ItemTable only inside "if not os.path.exists(self.db_path)"
EnsureTable(file, table) == IF file = "missing" THEN TRUE ELSE table

\* update_auth, as a function of the database and its inputs:
\* [file, table, rows, ret]
UpdateAuthOutcome(file, table, t, ups, fault) ==
    LET \* lines 136-148: a missing file is created with an empty ItemTable
        table1 == EnsureTable(file, table)
        t1 == IF file = "missing" THEN <<>> ELSE t
        \* the first pair the loop cannot write: "no such table" at the first
        \* SELECT, or the injected fault
        failAt == IF ~table1 THEN 1
                  ELSE IF fault \in 1 .. Len(ups) THEN fault
                  ELSE 0
        work == ApplyUpserts(t1, ups, IF failAt = 0 THEN Len(ups) ELSE failAt - 1)
    IN  IF fault = ConnectFault
        THEN [file |-> "present", table |-> table1, rows |-> t1, ret |-> "False"]
        ELSE IF failAt # 0 \/ fault = CommitFault(ups)
        THEN [file |-> "present", table |-> table1, rows |-> Rollback(t1, work), ret |-> "False"]
        ELSE [file |-> "present", table |-> table1, rows |-> work, ret |-> "True"]

\* update_sqlite_db: CREATE TABLE IF NOT EXISTS, INSERT OR REPLACE each pair,
\* commit; an exception leaves the uncommitted work behind the closed connection
UpdateSqliteDbOutcome(file, table, t, ups, fault) ==
    LET t1 == IF table THEN t ELSE <<>>
    IN  IF fault = ConnectFault
        THEN [file |-> file, table |-> table, rows |-> t, ret |-> "False"]
        ELSE IF fault # NoFault
        THEN [file |-> "present", table |-> table, rows |-> t, ret |-> "False"]
        ELSE [file |-> "present", table |-> TRUE,
              rows |-> ApplyReplaces(t1, ups, Len(ups)), ret |-> "True"]

\* update_sqlite_db calls conn.close() after the commit only: an exception
\* between connect and close skips it, and the connection stays open until
\* the interpreter reclaims the object
ConnectionAfter(fault) ==
    IF fault \in {ConnectFault, NoFault}
    THEN conns' = conns
    ELSE conns' \in {conns, conns \cup {"update_sqlite_db"}}

\* no update_auth was called last
NoCall == [email |-> None, access_token |-> None, refresh_token |-> None]

\* the tables the application may hold when the program starts
InitTables ==
    {a \o b \o c :
        a \in {<<>>, <<Row(KeyOther, "v1")>>},
        b \in {<<>>, <<Row(KeyEmail, "v1")>>},
        c \in {<<>>, <<Row(KeyDevDeviceId, "v1")>>}}

DbInit ==
    /\ \/ dbFile = "missing" /\ hasTable = FALSE /\ ItemTable = <<>>
       \/ dbFile = "present" /\ hasTable = FALSE /\ ItemTable = <<>>
       \/ dbFile = "present" /\ hasTable = TRUE /\ ItemTable \in InitTables
    /\ dbOp = "none"
    /\ dbArgs = <<>>
    /\ dbFault = NoFault
    /\ dbPre = [file |-> dbFile, table |-> hasTable, rows |-> ItemTable,
                op |-> "none", args |-> <<>>, ret |-> "none"]
    /\ dbResult = "none"
    /\ dbOps = 0
    /\ conns = {}
    /\ dbCall = NoCall

DbRecord(op, ups, fault, out) ==
    /\ dbFile' = out.file
    /\ hasTable' = out.table
    /\ ItemTable' = out.rows
    /\ dbOp' = op
    /\ dbArgs' = ups
    /\ dbFault' = fault
    /\ dbPre' = [file |-> dbFile, table |-> hasTable, rows |-> ItemTable,
                 op |-> dbOp, args |-> dbArgs, ret |-> dbResult]
    /\ dbResult' = out.ret
    /\ dbOps' = dbOps + 1
    /\ OnlyDb

\* CursorAuth(): with the database file there and accessible, __init__ opens
\* self.conn; no method of the class closes it
CursorAuthInit ==
    /\ \E connected \in BOOLEAN :
           conns' = IF dbFile = "present" /\ connected
                    THEN conns \cup {"CursorAuth.__init__"} ELSE conns
    /\ UNCHANGED <<dbFile, hasTable, ItemTable, dbOp, dbArgs, dbFault, dbPre, dbResult, dbOps,
                   dbCall>>
    /\ OnlyDb

\* CursorAuth.update_auth(email, access_token, refresh_token); its finally
\* closes the connection it opened
update_auth ==
    /\ dbOps < MaxOps
    /\ UNCHANGED conns
    /\ \E email \in Vals \cup {None}, access_token \in Tokens \cup {None},
          refresh_token \in Tokens \cup {None} :
         LET ups == AuthUpdates(email, access_token, refresh_token) IN
         \E fault \in Faults(ups) :
            /\ dbCall' = [email |-> email, access_token |-> access_token,
                          refresh_token |-> refresh_token]
            /\ DbRecord("update_auth", ups, fault,
                     UpdateAuthOutcome(dbFile, hasTable, ItemTable, ups, fault))

\* MachineIDResetter.update_sqlite_db(new_ids)
update_sqlite_db ==
    /\ dbOps < MaxOps
    /\ \E dev \in Vals, other \in Tokens :
         LET ups == NewIds(dev, other, other, other) IN
         \E fault \in Faults(ups) :
            /\ ConnectionAfter(fault)
            /\ dbCall' = NoCall
            /\ DbRecord("update_sqlite_db", ups, fault,
                        UpdateSqliteDbOutcome(dbFile, hasTable, ItemTable, ups, fault))

DbNext == CursorAuthInit \/ update_auth \/ update_sqlite_db

\* the database while another component runs
DbIdle ==
    /\ dbFile = "missing" /\ hasTable = FALSE /\ ItemTable = <<>>
    /\ dbOp = "none" /\ dbArgs = <<>> /\ dbFault = NoFault
    /\ dbPre = [file |-> "missing", table |-> FALSE, rows |-> <<>>,
                op |-> "none", args |-> <<>>, ret |-> "none"]
    /\ dbResult = "none" /\ dbOps = 0 /\ conns = {} /\ dbCall = NoCall

\* the keys a list of pairs names
KeysOf(ups) == {ups[i].key : i \in DOMAIN ups}

\* the rows of t whose key is not in ks, in order
RowsOutside(t, ks) == SelectSeq(t, LAMBDA r : r.key \notin ks)

\* the rows the transaction of the last update_auth held when it failed
WorkAtFault == ApplyUpserts(dbPre.rows, dbArgs, dbFault - 1)

(* C1: update_auth is all-or-nothing. When a write of a pair, or COMMIT,   *)
(* fails after BEGIN TRANSACTION, the transaction is rolled back: the rows *)
(* of ItemTable are those before the call and the call returns False.      *)
C1_UpdateAuthAllOrNothing ==
    (dbOp = "update_auth" /\ dbFault \in 1 .. Len(dbArgs) + 1) =>
        /\ dbResult = "False"
        /\ ItemTable = dbPre.rows

\* a write failed after earlier writes of the same transaction changed rows
C1_Witness ==
    /\ dbOp = "update_auth"
    /\ dbPre.table
    /\ dbFault \in 2 .. Len(dbArgs)
    /\ WorkAtFault # dbPre.rows
    /\ dbResult = "False"

(* C6: upserting the same pairs twice leaves ItemTable as upserting them   *)
(* once did: after a successful update_auth or update_sqlite_db there is   *)
(* exactly one row per key given, it holds the value given, the other rows *)
(* are those from before, and a second successful run of the operation     *)
(* with the same pairs leaves every row as the first run left it.          *)
C6_UpsertIdempotent ==
    (dbOp # "none" /\ dbResult = "True") =>
        /\ \A i \in DOMAIN dbArgs :
              /\ CountKey(ItemTable, dbArgs[i].key) = 1
              /\ \E j \in DOMAIN ItemTable : ItemTable[j] = dbArgs[i]
        /\ RowsOutside(ItemTable, KeysOf(dbArgs)) = RowsOutside(dbPre.rows, KeysOf(dbArgs))
        /\ (dbPre.op = dbOp /\ dbPre.args = dbArgs /\ dbPre.ret = "True") =>
              ItemTable = dbPre.rows

\* the same pairs were upserted twice in a row into a table holding other rows
C6_Witness ==
    /\ dbOps = 2
    /\ dbOp # "none"
    /\ dbPre.op = dbOp
    /\ dbPre.args = dbArgs
    /\ dbPre.ret = "True"
    /\ dbResult = "True"
    /\ Len(ItemTable) > Len(dbArgs)

(* C7: before writing, update_auth ensures that ItemTable exists in the    *)
(* file at the configured path, whether the file was missing or present    *)
(* without the table, so that the upsert of the auth keys is applied.      *)
C7_UpdateAuthEnsuresTable ==
    (dbOp = "update_auth" /\ dbFault = NoFault) =>
        /\ hasTable
        /\ dbResult = "True"
        /\ \A i \in DOMAIN dbArgs : \E j \in DOMAIN ItemTable : ItemTable[j] = dbArgs[i]


(***************************************************************************)
(* The signup flow: new_signup.main, called by                             *)
(* CursorRegistration.register_cursor, which goes on to read the session   *)
(* token (_get_account_info) and write the credentials                     *)
(* (_save_account_info).                                                   *)
(***************************************************************************)
\* handle_turnstile: max_retries = 2
max_retries == 2
\* handle_verification_code: max_attempts = 20
max_attempts_code == 20
\* _get_account_info: max_attempts = 30
max_attempts_token == 30

\* the processes one launch of Chrome starts
ChromePids == {"chrome1", "chrome2"}

\* the informal state machine of the flow
StepOrder == <<"fill_form", "captcha_1", "set_password", "captcha_2",
               "verification_code", "read_token", "write_credentials">>

\* nested ifs that go from set_password straight to the verification code
AfterStepSkipsCaptcha2(step, ok) ==
    IF ~ok THEN "main_failed"
    ELSE CASE step = "fill_form" -> "captcha_1"
           [] step = "captcha_1" -> "set_password"
           [] step = "set_password" -> "verification_code"
           [] step = "captcha_2" -> "verification_code"
           [] step = "verification_code" -> "main_success"

\* new_signup.main's nested ifs: the position after a step returned ok
AfterStep(step, ok) ==
    IF ~ok THEN "main_failed"
    ELSE CASE step = "fill_form" -> "captcha_1"
           [] step = "captcha_1" -> "set_password"
           [] step = "set_password" -> "captcha_2"
           [] step = "captcha_2" -> "verification_code"
           [] step = "verification_code" -> "main_success"

\* "if handle_verification_code(...)": a tuple is true whatever it holds
Truthy(ret) == ret # "None"

\* while retry_count <= max_retries
TurnstileLoopCondOffByOne(n) == n <= max_retries

\* while retry_count < max_retries
TurnstileLoopCond(n) == n < max_retries

\* for attempt in range(max_attempts)
CodeLoopCond(n) == n < max_attempts_code

\* while attempts < max_attempts
TokenLoopCond(n) == n < max_attempts_token

\* the pid of a Chrome process that the user starts
UserPids == {"chrome3"}

SignupInit ==
    /\ sPc = "main"
    /\ hasController \in BOOLEAN
    /\ hasEmailTab \in BOOLEAN
    /\ psutilWorks \in BOOLEAN
    /\ spawned = {}
    /\ running = {}
    /\ tracked = {}
    /\ killed = {}
    /\ stepsRun = <<>>
    /\ turnstileFor = "none"
    /\ retry_count = 0
    /\ attempt = 0
    /\ attempts = 0
    /\ poll = "none"
    /\ tries = 0
    /\ pollEnd = "none"
    /\ pollRet = "none"
    /\ vcRet = "none"
    /\ mainRet = "none"
    /\ regRet = "none"
    /\ userChrome \in SUBSET UserPids
    /\ before_pids = {}

envVars == <<hasController, hasEmailTab, psutilWorks>>
pidVars == <<spawned, running, tracked, killed>>
userVars == <<userChrome, before_pids>>
pollVars == <<turnstileFor, retry_count, attempt, attempts, poll, tries, pollEnd, pollRet>>

\* setup_driver: ChromiumPage(co) launches the browser, or raises
LaunchBrowser ==
    /\ sPc = "main"
    /\ \/ /\ spawned' = ChromePids
          /\ running' = ChromePids
          /\ sPc' = "track"
          /\ mainRet' = mainRet
          /\ regRet' = regRet
       \/ /\ UNCHANGED <<spawned, running>>
          /\ sPc' = "returned"
          /\ mainRet' = "False"
          /\ regRet' = "False"
    /\ before_pids' = IF psutilWorks THEN userChrome ELSE {}
    /\ UNCHANGED <<envVars, userChrome, tracked, killed, stepsRun, pollVars, vcRet>>
    /\ OnlySignup

\* setup_driver, after time.sleep(1): the new chrome pids are recorded;
\* "except: pass" when psutil fails
TrackPids ==
    /\ sPc = "track"
    /\ tracked' = IF psutilWorks
                  THEN tracked \cup ((userChrome \cup spawned) \ before_pids)
                  ELSE tracked
    /\ sPc' = "visit"
    /\ UNCHANGED <<envVars, userVars, spawned, running, killed, stepsRun, pollVars, vcRet, mainRet, regRet>>
    /\ OnlySignup

\* simulate_human_input: page.get may raise, into main's except
VisitSignupPage ==
    /\ sPc = "visit"
    /\ \E ok \in BOOLEAN : sPc' = IF ok THEN "fill_form" ELSE "main_failed"
    /\ UNCHANGED <<envVars, userVars, pidVars, stepsRun, pollVars, vcRet, mainRet, regRet>>
    /\ OnlySignup

\* fill_signup_form
FillForm ==
    /\ sPc = "fill_form"
    /\ stepsRun' = Append(stepsRun, "fill_form")
    /\ \E ok \in BOOLEAN : sPc' = AfterStep("fill_form", ok)
    /\ UNCHANGED <<envVars, userVars, pidVars, pollVars, vcRet, mainRet, regRet>>
    /\ OnlySignup

\* handle_turnstile is entered: retry_count = 0
EnterTurnstile(for) ==
    /\ turnstileFor' = for
    /\ retry_count' = 0
    /\ poll' = "turnstile"
    /\ tries' = 0
    /\ pollEnd' = "none"
    /\ pollRet' = "none"
    /\ sPc' = "turnstile"

\* the first and the second Turnstile check of main
StartCaptcha ==
    /\ sPc \in {"captcha_1", "captcha_2"}
    /\ stepsRun' = Append(stepsRun, sPc)
    /\ EnterTurnstile(sPc)
    /\ UNCHANGED <<envVars, userVars, pidVars, attempt, attempts, vcRet, mainRet, regRet>>
    /\ OnlySignup

\* what follows handle_turnstile's return, by its caller
AfterTurnstile(for, ok) ==
    IF for = "verification_code" THEN "vc_return" ELSE AfterStep(for, ok)

\* one iteration of handle_turnstile's loop: the check passes, or not
TurnstileAttempt ==
    /\ sPc = "turnstile"
    /\ TurnstileLoopCond(retry_count)
    /\ retry_count' = retry_count + 1
    /\ tries' = tries + 1
    /\ \/ /\ pollEnd' = "found"
          /\ pollRet' = "True"
          /\ sPc' = AfterTurnstile(turnstileFor, TRUE)
          /\ vcRet' = IF turnstileFor = "verification_code" THEN "(True, tab)" ELSE vcRet
       \/ /\ UNCHANGED <<pollEnd, pollRet, sPc, vcRet>>
    /\ UNCHANGED <<envVars, userVars, pidVars, stepsRun, turnstileFor, attempt, attempts, poll, mainRet, regRet>>
    /\ OnlySignup

\* handle_turnstile's loop is over: return False
TurnstileGiveUp ==
    /\ sPc = "turnstile"
    /\ ~TurnstileLoopCond(retry_count)
    /\ pollEnd' = "exhausted"
    /\ pollRet' = "False"
    /\ sPc' = AfterTurnstile(turnstileFor, FALSE)
    /\ vcRet' = IF turnstileFor = "verification_code" THEN "(False, None)" ELSE vcRet
    /\ UNCHANGED <<envVars, userVars, pidVars, stepsRun, turnstileFor, retry_count, poll, tries,
                   attempt, attempts, mainRet, regRet>>
    /\ OnlySignup

\* fill_password
FillPassword ==
    /\ sPc = "set_password"
    /\ stepsRun' = Append(stepsRun, "set_password")
    /\ \E ok \in BOOLEAN : sPc' = AfterStep("set_password", ok)
    /\ UNCHANGED <<envVars, userVars, pidVars, pollVars, vcRet, mainRet, regRet>>
    /\ OnlySignup

\* handle_verification_code is entered
StartVerificationCode ==
    /\ sPc = "verification_code"
    /\ stepsRun' = Append(stepsRun, "verification_code")
    /\ \/ \* manual mode: the controller is asked once
          /\ hasController /\ ~hasEmailTab
          /\ \/ /\ EnterTurnstile("verification_code")
                /\ vcRet' = vcRet
             \/ \* no code: the function ends without a return statement
                /\ vcRet' = "None"
                /\ sPc' = "vc_return"
                /\ UNCHANGED <<turnstileFor, retry_count, poll, tries, pollEnd, pollRet>>
             \/ \* an exception: return False, None
                /\ vcRet' = "(False, None)"
                /\ sPc' = "vc_return"
                /\ UNCHANGED <<turnstileFor, retry_count, poll, tries, pollEnd, pollRet>>
          /\ attempt' = attempt
       \/ \* automatic mode: the inbox is checked once, then polled
          /\ hasEmailTab
          /\ \/ /\ EnterTurnstile("verification_code")
                /\ UNCHANGED <<vcRet, attempt>>
             \/ /\ sPc' = "code_poll"
                /\ attempt' = 0
                /\ poll' = "code"
                /\ tries' = 0
                /\ pollEnd' = "none"
                /\ pollRet' = "none"
                /\ UNCHANGED <<vcRet, turnstileFor, retry_count>>
       \/ \* neither branch applies: the function ends without a return statement
          /\ ~hasController /\ ~hasEmailTab
          /\ vcRet' = "None"
          /\ sPc' = "vc_return"
          /\ UNCHANGED <<turnstileFor, retry_count, poll, tries, pollEnd, pollRet, attempt>>
    /\ UNCHANGED <<envVars, userVars, pidVars, attempts, mainRet, regRet>>
    /\ OnlySignup

\* one iteration of the verification-code poll
CodePollAttempt ==
    /\ sPc = "code_poll"
    /\ CodeLoopCond(attempt)
    /\ attempt' = attempt + 1
    /\ tries' = tries + 1
    /\ \/ \* time is up: break, no code, return False, None
          /\ pollEnd' = "timeout"
          /\ pollRet' = "(False, None)"
          /\ vcRet' = "(False, None)"
          /\ sPc' = "vc_return"
          /\ UNCHANGED <<turnstileFor, retry_count>>
       \/ \* controller is None: AttributeError, return False, None
          /\ ~hasController
          /\ pollEnd' = "error"
          /\ pollRet' = "(False, None)"
          /\ vcRet' = "(False, None)"
          /\ sPc' = "vc_return"
          /\ UNCHANGED <<turnstileFor, retry_count>>
       \/ \* the code arrived: break, fill it in, last Turnstile check
          /\ hasController
          /\ pollEnd' = "found"
          /\ pollRet' = "code"
          /\ turnstileFor' = "verification_code"
          /\ retry_count' = 0
          /\ sPc' = "turnstile_after_code"
          /\ vcRet' = vcRet
       \/ \* no code yet: refresh the inbox, sleep
          /\ hasController
          /\ UNCHANGED <<pollEnd, pollRet, vcRet, sPc, turnstileFor, retry_count>>
    /\ UNCHANGED <<envVars, userVars, pidVars, stepsRun, attempts, poll, mainRet, regRet>>
    /\ OnlySignup

\* the poll is over without a code: return False, None
CodePollGiveUp ==
    /\ sPc = "code_poll"
    /\ ~CodeLoopCond(attempt)
    /\ pollEnd' = "exhausted"
    /\ pollRet' = "(False, None)"
    /\ vcRet' = "(False, None)"
    /\ sPc' = "vc_return"
    /\ UNCHANGED <<envVars, userVars, pidVars, stepsRun, turnstileFor, retry_count, attempt, attempts,
                   poll, tries, mainRet, regRet>>
    /\ OnlySignup

\* after the poll found the code: handle_turnstile is entered
TurnstileAfterCode ==
    /\ sPc = "turnstile_after_code"
    /\ EnterTurnstile("verification_code")
    /\ UNCHANGED <<envVars, userVars, pidVars, stepsRun, attempt, attempts, vcRet, mainRet, regRet>>
    /\ OnlySignup

\* main: if handle_verification_code(...): success = True; return True, page
VerificationCodeReturns ==
    /\ sPc = "vc_return"
    /\ sPc' = AfterStep("verification_code", Truthy(vcRet))
    /\ UNCHANGED <<envVars, userVars, pidVars, stepsRun, pollVars, vcRet, mainRet, regRet>>
    /\ OnlySignup

\* main returns False, None; finally: page.quit(), cleanup_chrome_processes
MainFails ==
    /\ sPc = "main_failed"
    /\ mainRet' = "False"
    /\ running' = {}
    /\ killed' = killed \cup tracked
    /\ tracked' = {}
    /\ sPc' = "returned"
    /\ regRet' = "False"
    /\ UNCHANGED <<envVars, userVars, spawned, stepsRun, pollVars, vcRet>>
    /\ OnlySignup

\* main returns True, page; register_cursor calls _get_account_info, which
\* loads the settings page (an exception there: return False)
ReadToken ==
    /\ sPc = "main_success"
    /\ mainRet' = "True"
    /\ stepsRun' = Append(stepsRun, "read_token")
    /\ attempts' = 0
    /\ poll' = "token"
    /\ tries' = 0
    /\ pollEnd' = "none"
    /\ pollRet' = "none"
    /\ \E ok \in BOOLEAN : sPc' = IF ok THEN "token_poll" ELSE "quit_browser"
    /\ UNCHANGED <<envVars, userVars, pidVars, turnstileFor, retry_count, attempt, vcRet, regRet>>
    /\ OnlySignup

\* one iteration of the cookie poll: the token is there, or attempts += 1
TokenPollAttempt ==
    /\ sPc = "token_poll"
    /\ TokenLoopCond(attempts)
    /\ tries' = tries + 1
    /\ \/ /\ pollEnd' = "found"
          /\ pollRet' = "True"
          /\ sPc' = "write_credentials"
          /\ attempts' = attempts
       \/ /\ attempts' = attempts + 1
          /\ UNCHANGED <<pollEnd, pollRet, sPc>>
    /\ UNCHANGED <<envVars, userVars, pidVars, stepsRun, turnstileFor, retry_count, attempt, poll, vcRet,
                   mainRet, regRet>>
    /\ OnlySignup

\* the cookie poll is over: return False
TokenPollGiveUp ==
    /\ sPc = "token_poll"
    /\ ~TokenLoopCond(attempts)
    /\ pollEnd' = "exhausted"
    /\ pollRet' = "False"
    /\ sPc' = "quit_browser"
    /\ UNCHANGED <<envVars, userVars, pidVars, stepsRun, turnstileFor, retry_count, attempt, attempts,
                   poll, tries, vcRet, mainRet, regRet>>
    /\ OnlySignup

\* the account that was registered: its email address and its session token
RegisteredEmail == "v1"
SessionToken == "v1"

\* _save_account_info: update_cursor_auth(email, token, token) runs
\* CursorAuth.update_auth on the state database and its result is only
\* printed; _get_account_info returns True whatever _save_account_info
\* returned
WriteCredentials ==
    /\ sPc = "write_credentials"
    /\ stepsRun' = Append(stepsRun, "write_credentials")
    /\ sPc' = "quit_browser"
    /\ LET ups == AuthUpdates(RegisteredEmail, SessionToken, SessionToken) IN
       \E fault \in Faults(ups) :
          LET out == UpdateAuthOutcome(dbFile, hasTable, ItemTable, ups, fault)
          IN  /\ dbFile' = out.file
              /\ hasTable' = out.table
              /\ ItemTable' = out.rows
              /\ dbResult' = out.ret
              /\ dbFault' = fault
    /\ UNCHANGED <<dbOp, dbArgs, dbPre, dbOps, conns, dbCall>>
    /\ UNCHANGED <<envVars, userVars, pidVars, pollVars, vcRet, mainRet, regRet>>
    /\ UNCHANGED <<menuVars, resetVars, cfgVars, moreVars>>

\* register_cursor: browser_tab.quit(), and the result of _get_account_info
\* is returned
QuitBrowser ==
    /\ sPc = "quit_browser"
    /\ running' = {}
    /\ sPc' = "returned"
    /\ regRet' = IF pollRet = "True" THEN "True" ELSE "False"
    /\ UNCHANGED <<envVars, userVars, spawned, tracked, killed, stepsRun, pollVars, vcRet, mainRet>>
    /\ OnlySignup

\* cleanup_chrome_processes: every pid of _chrome_process_ids is sent a kill,
\* then the list is emptied
cleanup_chrome_processes ==
    /\ killed' = killed \cup tracked
    /\ tracked' = {}

\* signal_handler: SIGINT or SIGTERM while the run is under way
signal_handler ==
    /\ sPc \notin {"returned", "exited"}
    /\ cleanup_chrome_processes
    /\ sPc' = "exited"
    /\ UNCHANGED <<envVars, userVars, spawned, running, stepsRun, pollVars, vcRet, mainRet, regRet>>
    /\ OnlySignup

\* the user opens a Chrome of their own while the script runs
UserStartsChrome ==
    /\ sPc \notin {"returned", "exited"}
    /\ \E p \in UserPids \ userChrome : userChrome' = userChrome \cup {p}
    /\ UNCHANGED <<sPc, envVars, pidVars, stepsRun, pollVars, vcRet, mainRet, regRet,
                   before_pids>>
    /\ OnlySignup

SignupNext ==
    \/ UserStartsChrome
    \/ LaunchBrowser \/ TrackPids \/ VisitSignupPage \/ FillForm \/ StartCaptcha
    \/ TurnstileAttempt \/ TurnstileGiveUp \/ FillPassword \/ StartVerificationCode
    \/ CodePollAttempt \/ CodePollGiveUp \/ TurnstileAfterCode \/ VerificationCodeReturns
    \/ MainFails \/ ReadToken \/ TokenPollAttempt \/ TokenPollGiveUp \/ WriteCredentials
    \/ QuitBrowser \/ signal_handler

\* the signup flow while another component runs
SignupIdle ==
    /\ sPc = "idle"
    /\ hasController = FALSE /\ hasEmailTab = FALSE /\ psutilWorks = FALSE
    /\ spawned = {} /\ running = {} /\ tracked = {} /\ killed = {}
    /\ stepsRun = <<>> /\ turnstileFor = "none"
    /\ retry_count = 0 /\ attempt = 0 /\ attempts = 0 /\ poll = "none" /\ tries = 0
    /\ pollEnd = "none" /\ pollRet = "none" /\ vcRet = "none" /\ mainRet = "none"
    /\ regRet = "none" /\ userChrome = {} /\ before_pids = {}

(***************************************************************************)
(* The CLI menu: main.py's loop and the module entry points it calls.      *)
(***************************************************************************)
\* what the user can type at the prompt: "0" .. "15", or anything else
Choices == {"0", "1", "2", "3", "4", "5", "6", "7", "8", "9", "10", "11", "12", "13",
            "14", "15", "other"}

\* the environment of one dispatched operation
Envs ==
    [config : BOOLEAN,        \* get_config returns a configuration
     os_supported : BOOLEAN,  \* sys.platform is win32, linux or darwin
     cfg_writable : BOOLEAN,  \* config.ini can be opened for writing
     stdin : BOOLEAN,         \* input() returns (FALSE: it raises EOFError)
     db_dir : BOOLEAN,        \* the directory of sqlite_path exists
     ok : BOOLEAN,            \* the operation's own work succeeds
     quit_ok : BOOLEAN]       \* browser.quit() returns (FALSE: it raises)

NoEnv == [config |-> TRUE, os_supported |-> TRUE, cfg_writable |-> TRUE, stdin |-> TRUE,
          db_dir |-> TRUE, ok |-> TRUE, quit_ok |-> TRUE]

\* how a call ends
Returns(v) == [raised |-> "none", ret |-> v]
Raises(x) == [raised |-> x, ret |-> "none"]
Bool(b) == IF b THEN "True" ELSE "False"

\* CursorAuth.__init__: sys.exit(1) without a configuration, on an unsupported
\* platform, or when the directory of the database does not exist
CursorAuthInitExits(e) == ~e.config \/ ~e.os_supported \/ ~e.db_dir

\* MachineIDResetter.__init__ raises on an unsupported platform and when
\* config.ini cannot be written
MachineIDResetterInit(e) ==
    IF ~e.os_supported THEN "NotImplementedError"
    ELSE IF ~e.cfg_writable THEN "PermissionError"
    ELSE "none"

\* an entry point that wraps its body in try/except Exception
CatchAllEntry(e) == Returns(Bool(e.ok))

\* reset_machine_manual.run and totally_reset_cursor.run: no try/except around
\* the constructor, the reset and the final input()
ResetRun(e) ==
    IF ~e.config THEN Returns("False")
    ELSE IF MachineIDResetterInit(e) # "none" THEN Raises(MachineIDResetterInit(e))
    ELSE IF ~e.stdin THEN Raises("EOFError")
    ELSE Returns("None")

\* cursor_register.main: once the token is read, update_cursor_auth builds a
\* CursorAuth; SystemExit passes every except Exception on the way out
RegisterMain(e) ==
    IF e.ok /\ CursorAuthInitExits(e) THEN Raises("SystemExit") ELSE Returns(Bool(e.ok))

\* cursor_register_manual.main: the same, and the result of start() is printed
RegisterManualMain(e) ==
    IF e.ok /\ CursorAuthInitExits(e) THEN Raises("SystemExit") ELSE Returns("None")

\* oauth_auth.main as called by cursor_register_google.main
OAuthMain(e) ==
    IF ~e.ok THEN Returns("False")
    ELSE IF CursorAuthInitExits(e) THEN Raises("SystemExit")
    ELSE IF ~e.quit_ok THEN Raises("Exception")
    ELSE Returns("True")

\* select_language: only ValueError and IndexError are caught around input()
SelectLanguage(e) == IF ~e.stdin THEN Raises("EOFError") ELSE Returns(Bool(e.ok))

MenuInit ==
    /\ mPc = "prompt"
    /\ choice = "none"
    /\ mEnv = NoEnv
    /\ calledOp = "none"
    /\ opRaised = "none"
    /\ opRet = "none"
    /\ menuShown = TRUE
    /\ mEnd = "none"
    /\ rounds = 0

\* choice = input(...): a line, Ctrl+C, or a closed stdin
ReadChoice ==
    /\ mPc = "prompt"
    /\ rounds < MaxChoices
    /\ rounds' = rounds + 1
    /\ menuShown' = FALSE
    /\ mEnv' = NoEnv
    /\ calledOp' = "none"
    /\ opRet' = "none"
    /\ \/ \E c \in Choices :
             choice' = c /\ opRaised' = "none" /\ mPc' = "dispatch"
       \/ \E x \in {"KeyboardInterrupt", "EOFError"} :
             choice' = "none" /\ opRaised' = x /\ mPc' = "handle"
    /\ UNCHANGED mEnd
    /\ OnlyMenu

\* choice "0": main returns
Exit ==
    /\ mPc = "dispatch" /\ choice = "0"
    /\ mPc' = "ended"
    /\ mEnd' = "exit"
    /\ UNCHANGED <<choice, mEnv, calledOp, opRaised, opRet, menuShown, rounds>>
    /\ OnlyMenu

\* the dispatched code ran in environment e and ended as out; Ctrl+C while it
\* runs raises KeyboardInterrupt instead
Dispatched(c, op, e, out) ==
    /\ mPc = "dispatch" /\ choice = c
    /\ mEnv' = e
    /\ calledOp' = op
    /\ \/ opRaised' = out.raised /\ opRet' = out.ret
       \/ opRaised' = "KeyboardInterrupt" /\ opRet' = "none"
    /\ mPc' = "handle"
    /\ UNCHANGED <<choice, menuShown, mEnd, rounds>>
    /\ OnlyMenu

reset_machine_manual_run ==
    /\ mPc = "dispatch"
    /\ \E e \in Envs : Dispatched("1", "reset_machine_manual.run", e, ResetRun(e))

cursor_register_main ==
    /\ mPc = "dispatch"
    /\ \E e \in Envs : Dispatched("2", "cursor_register.main", e, RegisterMain(e))

\* cursor_register_google.main drops the result of oauth_auth.main
cursor_register_google_main ==
    /\ mPc = "dispatch"
    /\ \E e \in Envs :
           LET out == OAuthMain(e) IN
           Dispatched("3", "cursor_register_google.main", e,
                      IF out.raised = "none" THEN Returns("None") ELSE out)

\* import cursor_register_github: the repository has no such module
cursor_register_github_import ==
    /\ mPc = "dispatch"
    /\ \E e \in Envs : Dispatched("4", "none", e, Raises("ModuleNotFoundError"))

cursor_register_manual_main ==
    /\ mPc = "dispatch"
    /\ \E e \in Envs : Dispatched("5", "cursor_register_manual.main", e, RegisterManualMain(e))

\* choices "6" and "11" print a text and call no entry point
PrintOnly ==
    /\ mPc = "dispatch"
    /\ \E c \in {"6", "11"}, e \in Envs : Dispatched(c, "none", e, Returns("None"))

quit_cursor ==
    /\ mPc = "dispatch"
    /\ \E e \in Envs : Dispatched("7", "quit_cursor.quit_cursor", e, CatchAllEntry(e))

select_language ==
    /\ mPc = "dispatch"
    /\ \E e \in Envs : Dispatched("8", "select_language", e, SelectLanguage(e))

disable_auto_update_run ==
    /\ mPc = "dispatch"
    /\ \E e \in Envs : Dispatched("9", "disable_auto_update.run", e, CatchAllEntry(e))

totally_reset_cursor_run ==
    /\ mPc = "dispatch"
    /\ \E e \in Envs : Dispatched("10", "totally_reset_cursor.run", e, ResetRun(e))

\* print_config(get_config(), translator) returns at once without a configuration
print_config ==
    /\ mPc = "dispatch"
    /\ \E e \in Envs : Dispatched("12", "config.print_config", e, Returns("None"))

select_profile ==
    /\ mPc = "dispatch"
    /\ \E e \in Envs : Dispatched("13", "OAuthHandler._select_profile", e, CatchAllEntry(e))

delete_cursor_google_main ==
    /\ mPc = "dispatch"
    /\ \E e \in Envs : Dispatched("14", "delete_cursor_google.main", e, CatchAllEntry(e))

bypass_version_main ==
    /\ mPc = "dispatch"
    /\ \E e \in Envs : Dispatched("15", "bypass_version.main", e, CatchAllEntry(e))

\* the else branch: invalid choice
InvalidChoice ==
    /\ mPc = "dispatch"
    /\ \E e \in Envs : Dispatched("other", "none", e, Returns("None"))

\* the operation returned: print_menu(), and the loop goes on. After choice
\* "8" the menu is printed only if select_language returned True.
AfterReturn ==
    /\ mPc = "handle" /\ opRaised = "none"
    /\ menuShown' = (choice # "8" \/ opRet = "True")
    /\ mPc' = "prompt"
    /\ UNCHANGED <<choice, mEnv, calledOp, opRaised, opRet, mEnd, rounds>>
    /\ OnlyMenu

\* except KeyboardInterrupt: main returns
CatchKeyboardInterrupt ==
    /\ mPc = "handle" /\ opRaised = "KeyboardInterrupt"
    /\ mPc' = "ended"
    /\ mEnd' = "KeyboardInterrupt"
    /\ UNCHANGED <<choice, mEnv, calledOp, opRaised, opRet, menuShown, rounds>>
    /\ OnlyMenu

\* except Exception: the error is printed, print_menu(), and the loop goes on
CatchException ==
    /\ mPc = "handle" /\ opRaised \notin {"none", "KeyboardInterrupt", "SystemExit"}
    /\ menuShown' = TRUE
    /\ mPc' = "prompt"
    /\ UNCHANGED <<choice, mEnv, calledOp, opRaised, opRet, mEnd, rounds>>
    /\ OnlyMenu

\* SystemExit is no Exception: it leaves main and the interpreter exits
SystemExitLeavesMain ==
    /\ mPc = "handle" /\ opRaised = "SystemExit"
    /\ mPc' = "ended"
    /\ mEnd' = "SystemExit"
    /\ UNCHANGED <<choice, mEnv, calledOp, opRaised, opRet, menuShown, rounds>>
    /\ OnlyMenu

MenuNext ==
    \/ ReadChoice \/ Exit \/ reset_machine_manual_run \/ cursor_register_main
    \/ cursor_register_google_main \/ cursor_register_github_import
    \/ cursor_register_manual_main \/ PrintOnly \/ quit_cursor \/ select_language
    \/ disable_auto_update_run \/ totally_reset_cursor_run \/ print_config
    \/ select_profile \/ delete_cursor_google_main \/ bypass_version_main
    \/ InvalidChoice \/ AfterReturn \/ CatchKeyboardInterrupt \/ CatchException
    \/ SystemExitLeavesMain

\* the menu while another component runs
MenuIdle ==
    /\ mPc = "idle" /\ choice = "none" /\ mEnv = NoEnv /\ calledOp = "none"
    /\ opRaised = "none" /\ opRet = "none" /\ menuShown = FALSE /\ mEnd = "none"
    /\ rounds = 0

(***************************************************************************)
(* The machine-ID resetter: the files reset() writes and their backups.    *)
(***************************************************************************)
StorageJson == "storage.json"
MachineIdFile == "machineId"
MainJs == "main.js"
WorkbenchJs == "workbench.desktop.main.js"
ResetFiles == {StorageJson, MachineIdFile, MainJs, WorkbenchJs}

\* shutil.copy2(path, backup_path)
Copy2(b, c, f) == [b EXCEPT ![f] = c[f]]

\* open(path, 'w') and write
WriteNew(c, f) == [c EXCEPT ![f] = "written"]

\* the files that lost their content for good, after f is written while the
\* backups are b
NoteWrite(f, b) ==
    IF content[f] # "absent" /\ b[f] = "absent" THEN unsaved \cup {f} ELSE unsaved

\* where the identifiers are kept: two files and the table of state.vscdb
ItemTableStore == "ItemTable"
IdStores == {StorageJson, MachineIdFile, ItemTableStore}

\* store st is written with the identifiers generate_new_ids made in this run
StoreIds(st) == [idsIn EXCEPT ![st] = resets]

ResetInit ==
    /\ rPc = "ready"
    /\ content \in [ResetFiles -> {"absent", "original"}]
    /\ backup \in [ResetFiles -> {"absent", "original"}]
    /\ unsaved = {}
    /\ patchRet = "none"
    /\ resets = 0
    /\ anyFailed = FALSE
    /\ resetRet = "none"
    /\ idsIn = [st \in IdStores |-> 0]

\* a step has returned: reset() prints a warning for a False and goes on
NoteStep ==
    /\ anyFailed' = (anyFailed \/ patchRet' = "False")
    /\ UNCHANGED resetRet

\* reset() is entered
reset ==
    /\ rPc \in {"ready", "returned"}
    /\ resets < MaxResets
    /\ resets' = resets + 1
    /\ rPc' = "generate_new_ids"
    /\ patchRet' = "none"
    /\ anyFailed' = FALSE
    /\ resetRet' = "none"
    /\ UNCHANGED <<content, backup, unsaved, idsIn>>
    /\ OnlyReset

\* generate_new_ids calls update_machine_id_file: the file is opened for
\* writing at once
update_machine_id_file ==
    /\ rPc = "generate_new_ids"
    /\ \E written \in BOOLEAN :
         IF written
         THEN /\ content' = WriteNew(content, MachineIdFile)
              /\ unsaved' = NoteWrite(MachineIdFile, backup)
              /\ idsIn' = StoreIds(MachineIdFile)
              /\ patchRet' = "True"
         ELSE /\ UNCHANGED <<content, unsaved, idsIn>>
              /\ patchRet' = "False"
    /\ rPc' = "update_storage_json"
    /\ UNCHANGED <<backup, resets>>
    /\ NoteStep
    /\ OnlyReset

\* update_storage_json: an existing file is copied to .bak and loaded, then
\* the file is written
update_storage_json ==
    /\ rPc = "update_storage_json"
    /\ \E copied \in BOOLEAN, loaded \in BOOLEAN, written \in BOOLEAN :
         LET exists == content[StorageJson] # "absent"
             b == IF exists /\ copied THEN Copy2(backup, content, StorageJson) ELSE backup
             reached == (~exists) \/ (copied /\ loaded)
         IN  /\ backup' = b
             /\ IF reached /\ written
                THEN /\ content' = WriteNew(content, StorageJson)
                     /\ unsaved' = NoteWrite(StorageJson, b)
                     /\ idsIn' = StoreIds(StorageJson)
                     /\ patchRet' = "True"
                ELSE /\ UNCHANGED <<content, unsaved, idsIn>>
                     /\ patchRet' = "False"
    /\ rPc' = "update_ids"
    /\ UNCHANGED resets
    /\ NoteStep
    /\ OnlyReset

\* update_sqlite_db when the database exists, then update_system_ids: neither
\* touches one of the four files. Without a database file reset() prints a
\* warning and goes on.
update_ids ==
    /\ rPc = "update_ids"
    /\ rPc' = "patch"
    /\ \E dbExists \in BOOLEAN, dbOk \in BOOLEAN, sysOk \in BOOLEAN :
          /\ idsIn' = IF dbExists /\ dbOk THEN StoreIds(ItemTableStore) ELSE idsIn
          /\ patchRet' = (IF (dbExists /\ ~dbOk) \/ ~sysOk THEN "False" ELSE "True")
    /\ UNCHANGED <<content, backup, unsaved, resets>>
    /\ NoteStep
    /\ OnlyReset

\* patch_cursor_get_machine_id up to the call of modify_main_js: main.js has to
\* exist and its directory has to be writable
patch_cursor_get_machine_id ==
    /\ rPc = "patch"
    /\ \E checks \in BOOLEAN :
         IF content[MainJs] # "absent" /\ checks
         THEN rPc' = "modify_main_js" /\ patchRet' = "none"
         ELSE rPc' = "done" /\ patchRet' = "False"
    /\ UNCHANGED <<content, backup, unsaved, resets, idsIn>>
    /\ NoteStep
    /\ OnlyReset

\* modify_main_js / modify_workbench_js on file f: copy to .backup unless the
\* copy exists, return False when the copy fails; return True without a write
\* when the file is patched already; else write the patched text. found: the
\* pattern is in the file; modify_workbench_js (needsPattern) returns False
\* without it, modify_main_js writes the text as it is.
ModifyJs(f, needsPattern, next) ==
    \E copied \in BOOLEAN, found \in BOOLEAN, written \in BOOLEAN :
        LET needCopy == backup[f] = "absent"
            b == IF needCopy /\ copied /\ content[f] # "absent"
                 THEN Copy2(backup, content, f) ELSE backup
            copyFailed == needCopy /\ (~copied \/ content[f] = "absent")
            readable == content[f] # "absent"
            already == content[f] = "written"
        IN  /\ backup' = b
            /\ IF copyFailed \/ ~readable \/ (needsPattern /\ ~found)
               THEN /\ UNCHANGED <<content, unsaved>>
                    /\ patchRet' = "False" /\ rPc' = "done"
               ELSE IF already
               THEN /\ UNCHANGED <<content, unsaved>>
                    /\ patchRet' = "True" /\ rPc' = next
               ELSE IF written
               THEN /\ content' = WriteNew(content, f)
                    /\ unsaved' = NoteWrite(f, b)
                    /\ patchRet' = "True" /\ rPc' = next
               ELSE /\ UNCHANGED <<content, unsaved>>
                    /\ patchRet' = "False" /\ rPc' = "done"
            /\ UNCHANGED <<resets, idsIn>>
            /\ NoteStep
    /\ OnlyReset

modify_main_js == rPc = "modify_main_js" /\ ModifyJs(MainJs, FALSE, "modify_workbench_js")

modify_workbench_js == rPc = "modify_workbench_js" /\ ModifyJs(WorkbenchJs, TRUE, "done")

\* the steps are over: reset() prints that the reset is complete and returns
\* True
reset_returns ==
    /\ rPc = "done"
    /\ rPc' = "returned"
    /\ resetRet' = "True"
    /\ UNCHANGED <<content, backup, unsaved, patchRet, resets, anyFailed, idsIn>>
    /\ OnlyReset

\* a statement of reset() itself raises (a print that the console cannot
\* encode): except Exception, return False
reset_raises ==
    /\ rPc \in {"generate_new_ids", "done"}
    /\ rPc' = "returned"
    /\ resetRet' = "False"
    /\ UNCHANGED <<content, backup, unsaved, patchRet, resets, anyFailed, idsIn>>
    /\ OnlyReset

ResetNext ==
    \/ reset \/ update_machine_id_file \/ update_storage_json \/ update_ids
    \/ patch_cursor_get_machine_id \/ modify_main_js \/ modify_workbench_js
    \/ reset_returns \/ reset_raises

\* the resetter while another component runs
ResetIdle ==
    /\ rPc = "idle"
    /\ content = [f \in ResetFiles |-> "absent"]
    /\ backup = [f \in ResetFiles |-> "absent"]
    /\ unsaved = {} /\ patchRet = "none" /\ resets = 0
    /\ anyFailed = FALSE /\ resetRet = "none"
    /\ idsIn = [st \in IdStores |-> 0]

(***************************************************************************)
(* The configuration: config.ini as text, written and parsed as            *)
(* configparser does. A text is a sequence of characters; a word without   *)
(* blank and delimiter counts as one character.                            *)
(***************************************************************************)
\* an option is unset, or set to a text
Absent == [set |-> FALSE, value |-> <<>>]
Value(v) == [set |-> TRUE, value |-> v]

\* config.ini: missing, or its lines
MissingFile == [exists |-> FALSE, lines |-> <<>>]
File(lines) == [exists |-> TRUE, lines |-> lines]

\* section and option names of default_config the model follows
Key(s, o) == [s |-> s, o |-> o]
KeyList == <<Key("Chrome", "chromepath"), Key("Utils", "enabled_update_check"),
             Key("WindowsPaths", "storage_path"), Key("LinuxPaths", "storage_path")>>
Keys == {KeyList[i] : i \in DOMAIN KeyList}
SectionList == <<"Chrome", "Utils", "WindowsPaths", "LinuxPaths">>
OptionNames == {k.o : k \in Keys}

EmptyConfig == [k \in Keys |-> Absent]

\* a configuration object, or None
NoConfig == [some |-> FALSE, cfg |-> EmptyConfig]
Some(c) == [some |-> TRUE, cfg |-> c]

\* str.strip() of a text
RECURSIVE LStrip(_)
LStrip(s) == IF s # <<>> /\ Head(s) = " " THEN LStrip(Tail(s)) ELSE s
RECURSIVE RStrip(_)
RStrip(s) == IF s # <<>> /\ s[Len(s)] = " " THEN RStrip(SubSeq(s, 1, Len(s) - 1)) ELSE s
Strip(s) == RStrip(LStrip(s))

\* optionxform: option names are lower-cased
Lower(a) == IF a = "ChromePath" THEN "chromepath" ELSE a

Delimiters == {"=", ":"}
DelimiterPositions(line) == {i \in DOMAIN line : line[i] \in Delimiters}
Max(S) == CHOOSE x \in S : \A y \in S : y <= x
Min(S) == CHOOSE x \in S : \A y \in S : x <= y

\* the option name ends at the last delimiter of the line
LastDelimiter(line) == Max(DelimiterPositions(line))
\* the option name ends at the first delimiter of the line
FirstDelimiter(line) == Min(DelimiterPositions(line))

\* config.write: "[section]" and "option = value" lines
SectionLine(s) == <<"[", s, "]">>
OptionLine(o, v) == <<o, " ", "=", " ">> \o v

RECURSIVE WriteOptions(_, _, _)
WriteOptions(c, s, i) ==
    IF i > Len(KeyList) THEN <<>>
    ELSE (IF KeyList[i].s = s /\ c[KeyList[i]] # Absent
          THEN <<OptionLine(KeyList[i].o, c[KeyList[i]].value)>> ELSE <<>>)
         \o WriteOptions(c, s, i + 1)

HasSection(c, s) == \E k \in Keys : k.s = s /\ c[k] # Absent

RECURSIVE WriteSections(_, _)
WriteSections(c, i) ==
    IF i > Len(SectionList) THEN <<>>
    ELSE (IF HasSection(c, SectionList[i])
          THEN <<SectionLine(SectionList[i])>> \o WriteOptions(c, SectionList[i], 1) \o <<<<>>>>
          ELSE <<>>)
         \o WriteSections(c, i + 1)

ConfigWrite(c) == WriteSections(c, 1)

\* config.read: a "[section]" line opens a section, an option line is split at
\* its delimiter, name and value are stripped, the name is lower-cased
ReadLine(c, section, line) ==
    LET d == FirstDelimiter(line)
        name == Strip(SubSeq(line, 1, d - 1))
        value == Strip(SubSeq(line, d + 1, Len(line)))
    IN  IF Len(name) = 1 /\ Key(section, Lower(name[1])) \in Keys
        THEN [c EXCEPT ![Key(section, Lower(name[1]))] = Value(value)]
        ELSE c

RECURSIVE ReadLines(_, _, _, _)
ReadLines(lines, i, section, c) ==
    IF i > Len(lines) THEN c
    ELSE LET line == Strip(lines[i]) IN
         IF line = <<>> THEN ReadLines(lines, i + 1, section, c)
         ELSE IF Head(line) = "[" THEN ReadLines(lines, i + 1, line[2], c)
         ELSE ReadLines(lines, i + 1, section, ReadLine(c, section, line))

ConfigRead(lines) == ReadLines(lines, 1, "none", EmptyConfig)

\* the environments: the platform, and what the platform's paths are built from
CfgEnvs == {[platform |-> "win32", appdata |-> <<"C", ":", "Users">>, cursor_dir |-> <<>>],
            [platform |-> "win32", appdata |-> <<"C", ":", "100", "%">>, cursor_dir |-> <<>>],
            [platform |-> "linux", appdata |-> <<>>, cursor_dir |-> <<"home">>],
            [platform |-> "linux", appdata |-> <<>>, cursor_dir |-> <<>>]}

\* default_config in environment e
DefaultConfig(e) ==
    [k \in Keys |->
        IF k = Key("Chrome", "chromepath")
        THEN (IF e.platform = "win32" THEN Value(<<"C", ":", "Program", " ", "Files">>)
              ELSE Value(<<"usr">>))
        ELSE IF k = Key("Utils", "enabled_update_check") THEN Value(<<"True">>)
        ELSE IF k = Key("WindowsPaths", "storage_path") /\ e.platform = "win32"
        THEN Value(e.appdata \o <<"storage.json">>)
        ELSE IF k = Key("LinuxPaths", "storage_path") /\ e.platform = "linux"
        THEN Value(IF e.cursor_dir = <<>> THEN <<>> ELSE e.cursor_dir \o <<"storage.json">>)
        ELSE Absent]

\* config.set raises ValueError for a value with a lone "%"
SetRaises(v) == v.set /\ \E i \in DOMAIN v.value : v.value[i] = "%"

\* the options of default_config that configuration c lacks
Missing(c, d) == {k \in Keys : d[k] # Absent /\ c[k] = Absent}

Merged(c, d) == [k \in Keys |-> IF k \in Missing(c, d) THEN d[k] ELSE c[k]]

\* setup_config on file f in environment e: what it returns, the file it
\* leaves, and the configuration it wrote
SetupConfigOutcome(f, e) ==
    LET d == DefaultConfig(e)
        c == IF f.exists THEN ConfigRead(f.lines) ELSE EmptyConfig
        m == Merged(c, d)
    IN  IF \E k \in Missing(c, d) : SetRaises(d[k])
        THEN [ret |-> NoConfig, file |-> f, wrote |-> NoConfig]
        ELSE IF ~f.exists \/ m # c
        THEN [ret |-> Some(m), file |-> File(ConfigWrite(m)), wrote |-> Some(m)]
        ELSE [ret |-> Some(m), file |-> f, wrote |-> NoConfig]

\* config.ini as a user or an earlier version left it
EditedChromeLines == {<<"chromepath", "=", "usr">>,
                      <<"ChromePath", " ", ":", " ", "C", ":", "opt", " ", "chrome", " ">>,
                      <<" ", "chromepath", " ", "=", " ", " ", "usr", " ", "bin">>}
EditedFiles ==
    {<<SectionLine("Chrome")>> \o chrome \o utils :
        chrome \in {<<>>} \cup {<<l>> : l \in EditedChromeLines},
        utils \in {<<>>, <<SectionLine("Utils"),
                           <<"enabled_update_check", " ", "=", " ", "False">>>>}}

CfgInit ==
    /\ cfgEnv \in CfgEnvs
    /\ cfgFile \in {MissingFile} \cup {File(l) : l \in EditedFiles}
    /\ cfgBackup = MissingFile
    /\ cfgObj = NoConfig
    /\ cfgWritten = NoConfig
    /\ cfgPre = NoConfig
    /\ cfgOp = "none"
    /\ cfgOps = 0

\* setup_config(translator); get_config(translator) is the same call
setup_config ==
    /\ cfgOps < MaxCfgOps
    /\ LET out == SetupConfigOutcome(cfgFile, cfgEnv) IN
         /\ cfgFile' = out.file
         /\ cfgObj' = out.ret
         /\ cfgWritten' = IF out.wrote.some THEN out.wrote ELSE cfgWritten
    /\ cfgPre' = cfgWritten
    /\ cfgOp' = "setup_config"
    /\ cfgOps' = cfgOps + 1
    /\ UNCHANGED <<cfgEnv, cfgBackup>>
    /\ OnlyCfg

\* force_update_config(translator): an existing file is copied and removed,
\* then setup_config creates it again; when the copy or the removal fails the
\* file stays and setup_config loads it
force_update_config ==
    /\ cfgOps < MaxCfgOps
    /\ \E copied \in BOOLEAN, removed \in BOOLEAN :
         LET f == IF cfgFile.exists /\ copied /\ removed THEN MissingFile ELSE cfgFile
             out == SetupConfigOutcome(f, cfgEnv)
         IN  /\ cfgBackup' = IF cfgFile.exists /\ copied THEN cfgFile ELSE cfgBackup
             /\ cfgFile' = out.file
             /\ cfgObj' = out.ret
             /\ cfgWritten' = IF out.wrote.some THEN out.wrote
                              ELSE IF ~f.exists THEN NoConfig
                              ELSE cfgWritten
    /\ cfgPre' = cfgWritten
    /\ cfgOp' = "force_update_config"
    /\ cfgOps' = cfgOps + 1
    /\ UNCHANGED cfgEnv
    /\ OnlyCfg

\* the start of main() in main.py: config = get_config(translator), return
\* when that failed, else force_update_config(translator)
main_startup ==
    /\ cfgOps < MaxCfgOps
    /\ \E copied \in BOOLEAN, removed \in BOOLEAN :
         LET got == SetupConfigOutcome(cfgFile, cfgEnv)
             w == IF got.wrote.some THEN got.wrote ELSE cfgWritten
             f == IF got.file.exists /\ copied /\ removed THEN MissingFile ELSE got.file
             out == SetupConfigOutcome(f, cfgEnv)
         IN  IF ~got.ret.some
             THEN /\ cfgFile' = got.file
                  /\ cfgObj' = got.ret
                  /\ cfgWritten' = w
                  /\ UNCHANGED cfgBackup
             ELSE /\ cfgBackup' = IF got.file.exists /\ copied THEN got.file ELSE cfgBackup
                  /\ cfgFile' = out.file
                  /\ cfgObj' = got.ret
                  /\ cfgWritten' = IF out.wrote.some THEN out.wrote
                                   ELSE IF ~f.exists THEN NoConfig
                                   ELSE w
    /\ cfgPre' = cfgWritten
    /\ cfgOp' = "main"
    /\ cfgOps' = cfgOps + 1
    /\ UNCHANGED cfgEnv
    /\ OnlyCfg

CfgNext == setup_config \/ force_update_config \/ main_startup

\* the configuration while another component runs
CfgIdle ==
    /\ cfgEnv = [platform |-> "linux", appdata |-> <<>>, cursor_dir |-> <<>>]
    /\ cfgFile = MissingFile /\ cfgBackup = MissingFile /\ cfgObj = NoConfig
    /\ cfgWritten = NoConfig /\ cfgPre = NoConfig /\ cfgOp = "none" /\ cfgOps = 0

(***************************************************************************)
(* The version comparison of bypass_version.py.                            *)
(***************************************************************************)
\* the characters of a version string: three digits and the separator
VerChars == {"0", "1", "9", "."}
VersionStrings == UNION {[1 .. n -> VerChars] : n \in 0 .. MaxVerLen}

\* version.split('.'), from position i on, cur being the part read so far
RECURSIVE SplitDots(_, _, _)
SplitDots(s, i, cur) ==
    IF i > Len(s) THEN <<cur>>
    ELSE IF s[i] = "." THEN <<cur>> \o SplitDots(s, i + 1, <<>>)
    ELSE SplitDots(s, i + 1, Append(cur, s[i]))

Digit(c) == CASE c = "0" -> 0 [] c = "1" -> 1 [] c = "9" -> 9

\* the value of the first character alone
IntOfLeadingDigit(x) == IF x = <<>> THEN 0 ELSE Digit(x[1])

\* int(x) of a string of digits; int('') raises ValueError
RECURSIVE IntOf(_)
IntOf(x) ==
    IF x = <<>> THEN 0 ELSE 10 * IntOf(SubSeq(x, 1, Len(x) - 1)) + Digit(x[Len(x)])

\* the loop over range(max(len(v1_parts), len(v2_parts))), from index i on
RECURSIVE CompareParts(_, _, _)
CompareParts(v1_parts, v2_parts, i) ==
    IF i > Max({Len(v1_parts), Len(v2_parts)}) THEN 0
    ELSE LET v1 == IF i <= Len(v1_parts) THEN v1_parts[i] ELSE 0
             v2 == IF i <= Len(v2_parts) THEN v2_parts[i] ELSE 0
         IN  IF v1 < v2 THEN -1
             ELSE IF v1 > v2 THEN 1
             ELSE CompareParts(v1_parts, v2_parts, i + 1)

CompareVersions(a, b) ==
    LET p1 == SplitDots(a, 1, <<>>)
        p2 == SplitDots(b, 1, <<>>)
    IN  IF (\E i \in 1 .. Len(p1) : p1[i] = <<>>) \/ (\E i \in 1 .. Len(p2) : p2[i] = <<>>)
        THEN [raised |-> "ValueError", value |-> 0]
        ELSE [raised |-> "none",
              value |-> CompareParts([i \in 1 .. Len(p1) |-> IntOf(p1[i])],
                                     [i \in 1 .. Len(p2) |-> IntOf(p2[i])], 1)]

VerInit ==
    /\ version1 \in VersionStrings
    /\ version2 \in VersionStrings
    /\ verPc = "called"
    /\ cvRet = [raised |-> "none", value |-> 0]

compare_versions ==
    /\ verPc = "called"
    /\ cvRet' = CompareVersions(version1, version2)
    /\ verPc' = "returned"
    /\ UNCHANGED <<version1, version2>>
    /\ OnlyVer

VerNext == compare_versions

VerIdle ==
    /\ version1 = <<>> /\ version2 = <<>> /\ verPc = "idle"
    /\ cvRet = [raised |-> "none", value |-> 0]

(***************************************************************************)
(* The build script: build() in the main thread, _animate in the thread    *)
(* that LoadingAnimation.start creates.                                    *)
(***************************************************************************)
\* len(animation), animation = "|/-\\"
AnimationLen == 4

BuildInit ==
    /\ bPc = "prepare"
    /\ system \in {"windows", "linux", "darwin"}
    /\ loading = "unbound"
    /\ is_running = FALSE
    /\ animation_thread = "None"
    /\ idx = 0
    /\ threadsStarted = 0
    /\ inHandler = FALSE
    /\ buildExc = "none"
    /\ buildRet = "none"

threadVars == <<is_running, animation_thread, idx, threadsStarted>>

\* an exception raised inside the try block: control goes to "except
\* Exception as e", whose first statement is "if loading:"
ToHandler(e) ==
    /\ buildExc' = e
    /\ inHandler' = TRUE
    /\ bPc' = "handler"

\* the cache is cleaned and simulate_progress runs; either may raise. The
\* cleaning is before the try block, simulate_progress inside it.
Prepare ==
    /\ bPc = "prepare"
    /\ \/ bPc' = "start" /\ UNCHANGED <<inHandler, buildExc>>
       \/ bPc' = "raised" /\ buildExc' = "OSError" /\ UNCHANGED inHandler
       \/ ToHandler("Exception")
    /\ UNCHANGED <<system, loading, threadVars, buildRet>>
    /\ OnlyBuild

\* loading = LoadingAnimation(); loading.start(...): Thread.start() may fail
\* with RuntimeError (can't start new thread)
loading_start ==
    /\ bPc = "start"
    /\ loading' = "bound"
    /\ is_running' = TRUE
    /\ \/ /\ animation_thread' = "started"
          /\ threadsStarted' = threadsStarted + 1
          /\ bPc' = "pyinstaller"
          /\ UNCHANGED <<inHandler, buildExc>>
       \/ /\ animation_thread' = "created"
          /\ UNCHANGED threadsStarted
          /\ ToHandler("RuntimeError")
    /\ UNCHANGED <<system, idx, buildRet>>
    /\ OnlyBuild

\* the output name is computed and os.system(build_command) runs
RunPyInstaller ==
    /\ bPc = "pyinstaller"
    /\ \/ bPc' = "stop" /\ UNCHANGED <<inHandler, buildExc>>
       \/ ToHandler("Exception")
    /\ UNCHANGED <<system, loading, threadVars, buildRet>>
    /\ OnlyBuild

\* "if loading:" in the except clause; with loading unbound it raises
\* UnboundLocalError, which leaves build()
HandlerTest ==
    /\ bPc = "handler"
    /\ IF loading = "bound"
       THEN bPc' = "stop" /\ UNCHANGED buildExc
       ELSE bPc' = "raised" /\ buildExc' = "UnboundLocalError"
    /\ UNCHANGED <<system, loading, threadVars, inHandler, buildRet>>
    /\ OnlyBuild

\* loading.stop(), first half: is_running = False; joining a thread that was
\* never started raises RuntimeError
loading_stop ==
    /\ bPc = "stop"
    /\ is_running' = FALSE
    /\ IF animation_thread = "created"
       THEN bPc' = "raised" /\ buildExc' = "RuntimeError"
       ELSE bPc' = "join" /\ UNCHANGED buildExc
    /\ UNCHANGED <<system, loading, animation_thread, idx, threadsStarted, inHandler, buildRet>>
    /\ OnlyBuild

\* animation_thread.join() returns once the thread has ended. Then build
\* returns False from the except clause, or tests os.path.exists(output_path).
JoinReturns ==
    /\ bPc = "join"
    /\ animation_thread = "ended"
    /\ bPc' = "returned"
    /\ IF inHandler THEN buildRet' = "False" ELSE buildRet' \in {"True", "False"}
    /\ UNCHANGED <<system, loading, threadVars, inHandler, buildExc>>
    /\ OnlyBuild

\* Ctrl+C: KeyboardInterrupt is raised in the main thread wherever it is.
\* It is no Exception, so the except clause does not catch it, and raised
\* inside the except clause it leaves build() as well.
KeyboardInterruptInBuild ==
    /\ bPc \notin {"returned", "raised"}
    /\ bPc' = "raised"
    /\ buildExc' = "KeyboardInterrupt"
    /\ UNCHANGED <<system, loading, threadVars, inHandler, buildRet>>
    /\ OnlyBuild

\* _animate, one turn of "while self.is_running": a frame is printed
AnimateFrame ==
    /\ animation_thread = "started"
    /\ is_running
    /\ idx' = (idx + 1) % AnimationLen
    /\ UNCHANGED <<bPc, system, loading, is_running, animation_thread, threadsStarted,
                   inHandler, buildExc, buildRet>>
    /\ OnlyBuild

\* _animate finds is_running False and the thread ends
AnimateEnds ==
    /\ animation_thread = "started"
    /\ ~is_running
    /\ animation_thread' = "ended"
    /\ UNCHANGED <<bPc, system, loading, is_running, idx, threadsStarted,
                   inHandler, buildExc, buildRet>>
    /\ OnlyBuild

BuildNext ==
    \/ Prepare \/ loading_start \/ RunPyInstaller \/ HandlerTest \/ loading_stop
    \/ JoinReturns \/ KeyboardInterruptInBuild \/ AnimateFrame \/ AnimateEnds

BuildIdle ==
    /\ bPc = "idle" /\ system = "linux" /\ loading = "unbound" /\ is_running = FALSE
    /\ animation_thread = "None" /\ idx = 0 /\ threadsStarted = 0
    /\ inHandler = FALSE /\ buildExc = "none" /\ buildRet = "none"

(***************************************************************************)
(* Quitting Cursor: CursorQuitter.quit_cursor and the processes it asks to *)
(* terminate.                                                              *)
(***************************************************************************)
CursorPids == {1, 2}
Unbound == [bound |-> FALSE, procs |-> {}]
Bound(ps) == [bound |-> TRUE, procs |-> ps]

QuitInit ==
    /\ qPc = "collect"
    /\ timeout \in 0 .. MaxTimeout
    /\ alive \in SUBSET CursorPids
    /\ cursor_processes = {}
    /\ elapsed = 0
    /\ still_running = Unbound
    /\ quitRet = "none"

\* the loop over psutil.process_iter: the processes named cursor or
\* cursor.exe; with none, return True
CollectProcesses ==
    /\ qPc = "collect"
    /\ cursor_processes' = alive
    /\ IF alive = {}
       THEN qPc' = "returned" /\ quitRet' = "True"
       ELSE qPc' = "terminate" /\ UNCHANGED quitRet
    /\ UNCHANGED <<timeout, alive, elapsed, still_running>>
    /\ OnlyQuit

\* proc.terminate() for each process found that runs; start_time is taken
TerminateProcesses ==
    /\ qPc = "terminate"
    /\ qPc' = "wait"
    /\ elapsed' = 0
    /\ UNCHANGED <<timeout, alive, cursor_processes, still_running, quitRet>>
    /\ OnlyQuit

\* a Cursor process ends, upon the request or by itself
ProcessEnds ==
    /\ qPc \in {"collect", "terminate", "wait"}
    /\ \E p \in alive : alive' = alive \ {p}
    /\ UNCHANGED <<qPc, timeout, cursor_processes, elapsed, still_running, quitRet>>
    /\ OnlyQuit

\* one turn of "while time.time() - start_time < self.timeout": the
\* processes that run are collected; with none, return True, else sleep
WaitTurn ==
    /\ qPc = "wait"
    /\ elapsed < timeout
    /\ still_running' = Bound(cursor_processes \cap alive)
    /\ IF cursor_processes \cap alive = {}
       THEN qPc' = "returned" /\ quitRet' = "True" /\ UNCHANGED elapsed
       ELSE elapsed' = elapsed + 1 /\ UNCHANGED <<qPc, quitRet>>
    /\ UNCHANGED <<timeout, alive, cursor_processes>>
    /\ OnlyQuit

\* the loop is over: "if still_running:" returns False, else True; with
\* still_running unbound it raises UnboundLocalError, which "except
\* Exception" turns into a return of False
WaitOver ==
    /\ qPc = "wait"
    /\ elapsed >= timeout
    /\ qPc' = "returned"
    /\ quitRet' = IF still_running.bound /\ still_running.procs = {} THEN "True" ELSE "False"
    /\ UNCHANGED <<timeout, alive, cursor_processes, elapsed, still_running>>
    /\ OnlyQuit

QuitNext ==
    CollectProcesses \/ TerminateProcesses \/ ProcessEnds \/ WaitTurn \/ WaitOver

QuitIdle ==
    /\ qPc = "idle" /\ timeout = 0 /\ alive = {} /\ cursor_processes = {}
    /\ elapsed = 0 /\ still_running = Unbound /\ quitRet = "none"

(***************************************************************************)
(* The text of the patched JavaScript files. A file is a sequence of       *)
(* tokens: the pieces of text the patterns of a patch step tell apart.     *)
(***************************************************************************)
\* the four patch steps
ManualMainJs == "reset_machine_manual.modify_main_js"
ManualWorkbenchJs == "reset_machine_manual.modify_workbench_js"
TotalMainJs == "totally_reset_cursor.modify_main_js"
TotalWorkbenchJs == "totally_reset_cursor.modify_workbench_js"
PatchFns == {ManualMainJs, ManualWorkbenchJs, TotalMainJs, TotalWorkbenchJs}

\* the tokens of the file of each step.
\*   validateHead  validateDeviceId(e){return new Promise((t,n)=>{
\*   promiseHead   new Promise((a,b)=>{ outside validateDeviceId
\*   resolveTrue   t("true");return;
\*   getUid        getUniqueIdentifier(){     ret    return
\*   expr, alt     an expression without } and ?
\*   uuid          "f74c5e8a-0e20-4c1c-a48c-a5cbe71f4240"
\*   close         }                          qq     ??
\*   getMid        async getMachineId(){return
\*   upgrade       the "Upgrade to Pro" button, github: the button put in its place
\*   divPro        <div>Pro                   trial  " Trial"
\*   toasts        notifications-toasts       hidden " hidden"
JsTokens(fn) ==
    IF fn = ManualMainJs THEN {"validateHead", "promiseHead", "resolveTrue", "other"}
    ELSE IF fn = ManualWorkbenchJs THEN {"getUid", "ret", "expr", "uuid", "close"}
    ELSE IF fn = TotalMainJs THEN {"getMid", "alt", "qq", "close"}
    ELSE {"upgrade", "github", "divPro", "trial", "toasts", "hidden"}

JsTexts(fn) ==
    UNION {[1 .. n -> JsTokens(fn)] :
              n \in 0 .. (IF fn = TotalMainJs THEN MaxMainJsLen ELSE MaxJsLen)}

\* the first index from `from` on where t holds a token of S, 0 when there is none
FirstAt(t, from, S) ==
    LET ks == {k \in from .. Len(t) : t[k] \in S}
    IN  IF ks = {} THEN 0 ELSE Min(ks)

\* reset_machine_manual.modify_main_js: re.sub of
\*   validateDeviceId\(\w+\)\{return new Promise\(\(\w+,\w+\)=>{
\* by the same head followed by t("true");return;
RECURSIVE SubValidate(_)
SubValidate(t) ==
    IF t = <<>> THEN <<>>
    ELSE IF Head(t) = "validateHead"
    THEN <<"validateHead", "resolveTrue">> \o SubValidate(Tail(t))
    ELSE <<Head(t)>> \o SubValidate(Tail(t))

\* its test for a file that is modified already:
\*   "true" in content and re.search(r'new Promise\(\(\w+,\w+\)=>{(\w+)\("true"\)', content)
AlreadyModified(t) ==
    \E i \in 1 .. Len(t) - 1 :
        t[i] \in {"validateHead", "promiseHead"} /\ t[i + 1] = "resolveTrue"

\* reset_machine_manual.modify_workbench_js: where the pattern
\*   (getUniqueIdentifier\(\)[^}]+return\s+)([^}]+)(;?\s*\})
\* matches from index i: the last `return` with text behind it before the
\* first } after i, or 0
UidMatch(t, i) ==
    LET m == FirstAt(t, i + 1, {"close"})
        rs == IF m = 0 THEN {} ELSE {r \in i + 1 .. m - 2 : t[r] = "ret"}
    IN  IF t[i] = "getUid" /\ rs # {} THEN Max(rs) ELSE 0

\* re.search of the pattern
UidFound(t) == \E i \in 1 .. Len(t) : UidMatch(t, i) # 0

\* re.sub of the pattern by \1"f74c5e8a-..."\3, from index i on
RECURSIVE SubUid(_, _)
SubUid(t, i) ==
    IF i > Len(t) THEN <<>>
    ELSE IF UidMatch(t, i) # 0
    THEN SubSeq(t, i, UidMatch(t, i)) \o <<"uuid", "close">>
            \o SubUid(t, FirstAt(t, i + 1, {"close"}) + 1)
    ELSE <<t[i]>> \o SubUid(t, i + 1)

\* totally_reset_cursor.modify_main_js: re.sub of
\*   async getMachineId\(\)\{return [^??]+\?\?([^}]+)\}
\* by async getMachineId(){return \1}, from index i on. [^??]+ runs to the
\* first ?? and ([^}]+) from there to the first }.
RECURSIVE SubMid(_, _)
SubMid(t, i) ==
    IF i > Len(t) THEN <<>>
    ELSE LET k == FirstAt(t, i + 1, {"qq"})
             m == IF k = 0 THEN 0 ELSE FirstAt(t, k + 1, {"close"})
         IN  IF t[i] = "getMid" /\ k >= i + 2 /\ m >= k + 2
             THEN <<"getMid">> \o SubSeq(t, k + 1, m - 1) \o <<"close">> \o SubMid(t, m + 1)
             ELSE <<t[i]>> \o SubMid(t, i + 1)

\* str.replace(old, new) on tokens: old is not empty
RECURSIVE Replace(_, _, _)
Replace(t, old, new) ==
    IF Len(t) < Len(old) THEN t
    ELSE IF SubSeq(t, 1, Len(old)) = old
    THEN new \o Replace(SubSeq(t, Len(old) + 1, Len(t)), old, new)
    ELSE <<Head(t)>> \o Replace(Tail(t), old, new)

\* totally_reset_cursor.modify_workbench_js: the button, the badge and the
\* toasts are replaced, one after the other
ReplaceWorkbench(t) ==
    Replace(Replace(Replace(t, <<"upgrade">>, <<"github">>),
                    <<"divPro", "trial">>, <<"divPro">>),
            <<"toasts">>, <<"toasts", "hidden">>)

PatchInit ==
    /\ jsFn \in PatchFns
    /\ jsText \in JsTexts(jsFn)
    /\ jsRuns = <<>>

\* a run of the step ends: the file holds t and the step returns r
JsReturn(t, r) ==
    /\ jsText' = t
    /\ jsRuns' = Append(jsRuns, [text |-> t, ret |-> r])
    /\ UNCHANGED jsFn
    /\ OnlyPatch

\* modify_main_js of reset_machine_manual.py. fails: the backup cannot be
\* made or the file cannot be read; the file is left as it is.
manual_modify_main_js ==
    /\ jsFn = ManualMainJs
    /\ Len(jsRuns) < MaxPatchRuns
    /\ \E fails \in BOOLEAN :
         IF fails THEN JsReturn(jsText, "False")
         ELSE IF AlreadyModified(jsText) THEN JsReturn(jsText, "True")
         ELSE JsReturn(SubValidate(jsText), "True")

\* modify_workbench_js of reset_machine_manual.py
manual_modify_workbench_js ==
    /\ jsFn = ManualWorkbenchJs
    /\ Len(jsRuns) < MaxPatchRuns
    /\ \E fails \in BOOLEAN :
         IF fails \/ ~UidFound(jsText) THEN JsReturn(jsText, "False")
         ELSE IF \E i \in 1 .. Len(jsText) : jsText[i] = "uuid" THEN JsReturn(jsText, "True")
         ELSE JsReturn(SubUid(jsText, 1), "True")

\* modify_main_js of totally_reset_cursor.py. fails: os.stat or the read
\* raises; the file is left as it is.
total_modify_main_js ==
    /\ jsFn = TotalMainJs
    /\ Len(jsRuns) < MaxPatchRuns
    /\ \E fails \in BOOLEAN :
         IF fails THEN JsReturn(jsText, "False")
         ELSE JsReturn(SubMid(jsText, 1), "True")

\* modify_workbench_js of totally_reset_cursor.py
total_modify_workbench_js ==
    /\ jsFn = TotalWorkbenchJs
    /\ Len(jsRuns) < MaxPatchRuns
    /\ \E fails \in BOOLEAN :
         IF fails THEN JsReturn(jsText, "False")
         ELSE JsReturn(ReplaceWorkbench(jsText), "True")

PatchNext ==
    \/ manual_modify_main_js
    \/ manual_modify_workbench_js
    \/ total_modify_main_js
    \/ total_modify_workbench_js

\* no patch step is run
PatchIdle == jsFn = "none" /\ jsText = <<>> /\ jsRuns = <<>>

(***************************************************************************)
(* The OAuth sign-in: main, handle_google_auth, handle_github_auth and     *)
(* _wait_for_auth of oauth_auth.py.                                        *)
(***************************************************************************)
AuthTypes == {"google", "github", "other"}

\* the usage the settings page shows; Unreadable: the element is missing or
\* its text is not "current/limit"
Unreadable == [current |-> -1, limit |-> -1]
Usages == [current : {0, 50, 150}, limit : {50, 150, 500}] \cup {Unreadable}

\* check_usage_limits(usage_str)
check_usage_limits(u) ==
    /\ u # Unreadable
    /\ \/ u.limit = 50 /\ u.current >= 50
       \/ u.limit = 150 /\ u.current >= 150

\* the email read from the settings page: the text of the element, None when
\* the element is not found, the fallback when looking for it raises
Emails == {"account", "None", "user@cursor.sh"}

\* a handler has not returned
NoRet == [success |-> "none", info |-> "none"]

\* `not auth_info` in the handlers, `auth_info` in main: None is false, a
\* dictionary with two keys and a tuple of two items are true
InfoTruthy(info) == info \in {"dict", "tuple"}

OauthInit ==
    /\ oPc = "main"
    /\ auth_type \in AuthTypes
    /\ depth = 0
    /\ usage = Unreadable
    /\ authEmail = "none"
    /\ handlerRet = NoRet
    /\ oauthRet = "none"

\* main picks the handler by auth_type, or returns False for another type
oauth_main ==
    /\ oPc = "main"
    /\ IF auth_type \in {"google", "github"}
       THEN oPc' = "handle" /\ UNCHANGED oauthRet
       ELSE oPc' = "done" /\ oauthRet' = "False"
    /\ UNCHANGED <<auth_type, depth, usage, authEmail, handlerRet>>
    /\ OnlyOauth

\* a handle_*_auth call returns the pair (success, info): to main when it is
\* the call main made, else to the _wait_for_auth that made it
HandlerReturns(success, info) ==
    /\ handlerRet' = [success |-> success, info |-> info]
    /\ IF depth = 0
       THEN oPc' = "returned" /\ UNCHANGED depth
       ELSE oPc' = "restarted" /\ depth' = depth - 1

\* a handler up to its call of _wait_for_auth: it returns (False, None) when
\* the browser is not set up or the button is not found
HandleAuth ==
    /\ oPc = "handle"
    /\ \E setup \in BOOLEAN, button \in BOOLEAN :
         IF setup /\ button
         THEN oPc' = "wait" /\ UNCHANGED <<depth, handlerRet>>
         ELSE HandlerReturns("False", "None")
    /\ UNCHANGED <<auth_type, usage, authEmail, oauthRet>>
    /\ OnlyOauth

handle_google_auth == auth_type = "google" /\ HandleAuth

handle_github_auth == auth_type = "github" /\ HandleAuth

\* _wait_for_auth returns None after five minutes without the session
\* cookie, or when it raises: the handler returns (False, None)
wait_times_out ==
    /\ oPc = "wait"
    /\ HandlerReturns("False", "None")
    /\ UNCHANGED <<auth_type, usage, authEmail, oauthRet>>
    /\ OnlyOauth

\* _wait_for_auth finds the session cookie and reads the email and the usage:
\* it deletes an account that has reached its limit and returns what a new
\* call of the handler returns; else it returns the dictionary, and the
\* handler returns (True, dictionary)
wait_finds_token ==
    /\ oPc = "wait"
    /\ \E e \in Emails, u \in Usages, deleted \in BOOLEAN :
         /\ authEmail' = e
         /\ usage' = u
         /\ IF check_usage_limits(u) /\ deleted
            THEN /\ depth < MaxRestarts
                 /\ depth' = depth + 1
                 /\ oPc' = "handle"
                 /\ UNCHANGED handlerRet
            ELSE HandlerReturns("True", "dict")
    /\ UNCHANGED <<auth_type, oauthRet>>
    /\ OnlyOauth

\* the handler called from _wait_for_auth has returned its pair:
\* _wait_for_auth returns the pair, and the handler that waits tests it with
\* `if not auth_info` and returns (True, auth_info)
wait_returns_restart ==
    /\ oPc = "restarted"
    /\ IF InfoTruthy("tuple")
       THEN HandlerReturns("True", "tuple")
       ELSE HandlerReturns("False", "None")
    /\ UNCHANGED <<auth_type, usage, authEmail, oauthRet>>
    /\ OnlyOauth

\* main after the handler: update_auth with auth_info["email"] and
\* auth_info["token"], which raises TypeError on a tuple
oauth_main_returns ==
    /\ oPc = "returned"
    /\ oPc' = "done"
    /\ \E updated \in BOOLEAN :
         oauthRet' = IF handlerRet.success = "True" /\ InfoTruthy(handlerRet.info)
                     THEN IF handlerRet.info = "tuple" THEN "TypeError"
                          ELSE IF updated THEN "True" ELSE "False"
                     ELSE "False"
    /\ UNCHANGED <<auth_type, depth, usage, authEmail, handlerRet>>
    /\ OnlyOauth

OauthNext ==
    \/ oauth_main
    \/ handle_google_auth
    \/ handle_github_auth
    \/ wait_times_out
    \/ wait_finds_token
    \/ wait_returns_restart
    \/ oauth_main_returns

\* no sign-in is run
OauthIdle ==
    /\ oPc = "idle" /\ auth_type = "none" /\ depth = 0 /\ usage = Unreadable
    /\ authEmail = "none" /\ handlerRet = NoRet /\ oauthRet = "none"

(***************************************************************************)
(* The specifications, one per component.                                  *)
(***************************************************************************)
vars == <<firstVars, moreVars>>

\* the added components at rest
LastIdle == PatchIdle /\ OauthIdle
MoreIdle == VerIdle /\ BuildIdle /\ QuitIdle /\ LastIdle

InitDb == DbInit /\ SignupIdle /\ MenuIdle /\ ResetIdle /\ CfgIdle /\ MoreIdle
SpecDb == InitDb /\ [][DbNext]_vars

InitSignup == SignupInit /\ DbIdle /\ MenuIdle /\ ResetIdle /\ CfgIdle /\ MoreIdle
SpecSignup == InitSignup /\ [][SignupNext]_vars

InitMenu == MenuInit /\ DbIdle /\ SignupIdle /\ ResetIdle /\ CfgIdle /\ MoreIdle
SpecMenu == InitMenu /\ [][MenuNext]_vars

InitReset == ResetInit /\ DbIdle /\ SignupIdle /\ MenuIdle /\ CfgIdle /\ MoreIdle
SpecReset == InitReset /\ [][ResetNext]_vars

InitCfg == CfgInit /\ DbIdle /\ SignupIdle /\ MenuIdle /\ ResetIdle /\ MoreIdle
SpecCfg == InitCfg /\ [][CfgNext]_vars

\* the first five components at rest
FirstIdle == DbIdle /\ SignupIdle /\ MenuIdle /\ ResetIdle /\ CfgIdle

InitVer == VerInit /\ FirstIdle /\ BuildIdle /\ QuitIdle /\ LastIdle
SpecVer == InitVer /\ [][VerNext]_vars

InitBuild == BuildInit /\ FirstIdle /\ VerIdle /\ QuitIdle /\ LastIdle
SpecBuild == InitBuild /\ [][BuildNext]_vars

InitQuit == QuitInit /\ FirstIdle /\ VerIdle /\ BuildIdle /\ LastIdle
SpecQuit == InitQuit /\ [][QuitNext]_vars

InitPatch == PatchInit /\ FirstIdle /\ VerIdle /\ BuildIdle /\ QuitIdle /\ OauthIdle
SpecPatch == InitPatch /\ [][PatchNext]_vars

InitOauth == OauthInit /\ FirstIdle /\ VerIdle /\ BuildIdle /\ QuitIdle /\ PatchIdle
SpecOauth == InitOauth /\ [][OauthNext]_vars

(***************************************************************************)
(* The properties.                                                         *)
(***************************************************************************)


IsPrefix(a, b) == Len(a) <= Len(b) /\ \A i \in 1 .. Len(a) : a[i] = b[i]

(* C2: in every run of the signup flow the steps that were started form a  *)
(* prefix of fill_form, captcha_1, set_password, captcha_2,                *)
(* verification_code, read_token, write_credentials, in that order.        *)
C2_StepsFormPrefix == IsPrefix(stepsRun, StepOrder)

\* a run went through all seven steps
C2_Witness == stepsRun = StepOrder /\ sPc = "returned"

\* the attempts the polling loop named p may make
PollMax(p) ==
    CASE p = "turnstile" -> max_retries
      [] p = "code" -> max_attempts_code
      [] p = "token" -> max_attempts_token

(* C5: every polling step gives up after a fixed number of attempts:       *)
(* handle_turnstile runs its loop body at most 2 times, the                *)
(* verification-code poll at most 20 times, the session-token poll at most *)
(* 30 times, and a loop that used up its attempts ends the step with a     *)
(* failure result.                                                         *)
C5_PollsGiveUp ==
    poll # "none" =>
        /\ tries <= PollMax(poll)
        /\ pollEnd = "exhausted" =>
              /\ tries = PollMax(poll)
              /\ pollRet \in {"False", "(False, None)"}

\* the session-token poll used up its 30 attempts
C5_Witness == poll = "token" /\ pollEnd = "exhausted" /\ tries = max_attempts_token

(* C8: when SIGINT or SIGTERM arrives after the browser was launched,      *)
(* every browser process the run spawned that still runs has been sent a   *)
(* kill before the program exits.                                          *)
C8_SignalKillsBrowsers == sPc = "exited" => running \subseteq killed

(* C3: a failure inside an operation dispatched from the menu never        *)
(* terminates the program: main ends only when the user enters 0 or        *)
(* presses Ctrl+C.                                                         *)
C3_MenuEndsOnlyOnExitOrCtrlC == mPc = "ended" => mEnd \in {"exit", "KeyboardInterrupt"}

(* C9: no entry point called from the menu propagates an exception to its  *)
(* caller: every failure inside it ends in a return of False or None.      *)
C9_EntryPointsNeverRaise ==
    (mPc = "handle" /\ calledOp # "none") => opRaised \in {"none", "KeyboardInterrupt"}

(* C4: every existing file the resetter overwrites was copied to a .bak or *)
(* .backup file before the resetter's first write to it.                   *)
C4_BackupBeforeOverwrite == unsaved = {}

(* C10: after the configuration was written to config.ini, loading it      *)
(* again through setup_config yields the value that was written, for every *)
(* section and option written: the file parses to the configuration        *)
(* written last, and a later setup_config returns those values.            *)
C10_ConfigRoundTrip ==
    /\ (cfgWritten.some /\ cfgFile.exists) => ConfigRead(cfgFile.lines) = cfgWritten.cfg
    /\ (cfgOp = "setup_config" /\ cfgPre.some) =>
          /\ cfgObj.some
          /\ \A k \in Keys : cfgPre.cfg[k].set => cfgObj.cfg[k] = cfgPre.cfg[k]

\* a configuration with an empty value and one holding a delimiter and a blank
\* was written and then loaded again
C10_Witness ==
    /\ cfgOp = "setup_config" /\ cfgPre.some /\ cfgObj = cfgPre
    /\ cfgObj.cfg[Key("LinuxPaths", "storage_path")] = Value(<<>>)
    /\ cfgObj.cfg[Key("Chrome", "chromepath")] = Value(<<"C", ":", "opt", " ", "chrome">>)

\* the value of a string of digits: each digit weighed by its power of ten
RECURSIVE NumericValue(_)
NumericValue(x) ==
    IF x = <<>> THEN 0 ELSE Digit(x[1]) * 10 ^ (Len(x) - 1) + NumericValue(Tail(x))

\* every dot-separated component of v is a non-empty string of digits
WellFormed(v) == \A i \in 1 .. Len(SplitDots(v, 1, <<>>)) : SplitDots(v, 1, <<>>)[i] # <<>>

\* the numeric value of the i-th component of v, 0 if v has fewer components
ComponentValue(v, i) ==
    LET parts == SplitDots(v, 1, <<>>)
    IN  IF i <= Len(parts) THEN NumericValue(parts[i]) ELSE 0

\* the components in which a and b differ numerically
Differing(a, b) ==
    {i \in 1 .. Len(a) + Len(b) + 1 : ComponentValue(a, i) # ComponentValue(b, i)}

\* C11: for version strings whose components are all numbers, compare_versions
\* returns 0 if no component differs numerically, a missing one counting as
\* 0, and else -1 or 1 as the first differing component of the first version
\* is the smaller or the larger number.
C11_CompareVersionsIsNumeric ==
    (verPc = "returned" /\ WellFormed(version1) /\ WellFormed(version2)) =>
        /\ cvRet.raised = "none"
        /\ LET D == Differing(version1, version2)
           IN  cvRet.value =
                   IF D = {} THEN 0
                   ELSE IF ComponentValue(version1, Min(D)) < ComponentValue(version2, Min(D))
                        THEN -1 ELSE 1

\* "9" against "10": smaller as a number, larger as text
C11_Witness ==
    /\ verPc = "returned"
    /\ version1 = <<"9">> /\ version2 = <<"1", "0">>
    /\ cvRet = [raised |-> "none", value |-> -1]

\* C12: a choice from 1 to 15 calls the operation of its module (choice 11
\* has none to call: main prints the contributors itself), and main ends
\* normally on choice 0 alone.
C12_EveryChoiceDispatches ==
    /\ (mPc = "handle" /\ choice \in Choices \ {"0", "11", "other"}) => calledOp # "none"
    /\ (mPc = "ended" /\ mEnd = "exit") => choice = "0"

\* C13: between operations no connection to the database is open: whatever
\* the CursorAuth constructor, update_auth or update_sqlite_db opened, it
\* closed before it returned.
C13_ConnectionsClosed == conns = {}

\* C14: build() starts at most one spinner thread, and when build() has
\* returned or raised, no spinner thread is left running.
C14_SpinnerStoppedWhenBuildEnds ==
    /\ threadsStarted <= 1
    /\ bPc \in {"returned", "raised"} => animation_thread # "started"

\* the rows of t with key k, in order
RowsOf(t, k) == SelectSeq(t, LAMBDA r : r.key = k)

\* the key of t holds v, or was left as it was in the table before
WrittenOrKept(k, v) ==
    IF v # None THEN RowsOf(ItemTable, k) = <<Row(k, v)>>
    ELSE RowsOf(ItemTable, k) = RowsOf(dbPre.rows, k)

\* C15: after an update_auth that succeeded, cachedSignUpType is Auth_0,
\* each of cachedEmail, accessToken and refreshToken holds its argument if
\* that was not None and else is as it was before the call, and every other
\* row is as it was before the call.
C15_UpdateAuthFrame ==
    (dbOp = "update_auth" /\ dbResult = "True") =>
        /\ WrittenOrKept(KeySignUpType, "Auth_0")
        /\ WrittenOrKept(KeyEmail, dbCall.email)
        /\ WrittenOrKept(KeyAccessToken, dbCall.access_token)
        /\ WrittenOrKept(KeyRefreshToken, dbCall.refresh_token)
        /\ LET ks == {KeySignUpType, KeyEmail, KeyAccessToken, KeyRefreshToken}
           IN  RowsOutside(ItemTable, ks) = RowsOutside(dbPre.rows, ks)

\* a token was written while the email argument was None, into a table that
\* held an email and a row of the application
C15_Witness ==
    /\ dbOp = "update_auth" /\ dbResult = "True"
    /\ dbCall.email = None /\ dbCall.access_token # None
    /\ RowsOf(dbPre.rows, KeyEmail) = <<Row(KeyEmail, "v1")>>
    /\ RowsOf(dbPre.rows, KeyOther) # <<>>
    /\ RowsOf(ItemTable, KeyEmail) = <<Row(KeyEmail, "v1")>>

\* C16: reset() returns True only if none of the steps it ran returned
\* False.
C16_SuccessMeansEveryStepSucceeded ==
    (rPc = "returned" /\ resetRet = "True") => ~anyFailed

\* C17: quit_cursor returns True if none of the processes it found runs
\* when it returns, and False if one of them does.
C17_QuitCursorReportsWhatRuns ==
    qPc = "returned" => (quitRet = "True" <=> cursor_processes \cap alive = {})

\* C18: when handle_verification_code returned a failure, (False, None), or
\* nothing, new_signup.main does not report success and neither the token
\* is read nor the credentials are written.
C18_FailedCodeStopsSignup ==
    vcRet \in {"(False, None)", "None"} =>
        /\ mainRet # "True"
        /\ \A i \in DOMAIN stepsRun : stepsRun[i] \notin {"read_token", "write_credentials"}

\* C19: when the registration reported success, ItemTable holds the email
\* address of the new account under cursorAuth/cachedEmail and its session
\* token under cursorAuth/accessToken.
C19_SuccessMeansCredentialsStored ==
    regRet = "True" =>
        /\ \E i \in DOMAIN ItemTable : ItemTable[i] = Row(KeyEmail, RegisteredEmail)
        /\ \E i \in DOMAIN ItemTable : ItemTable[i] = Row(KeyAccessToken, SessionToken)

\* C20: no Chrome process that the user started is ever sent a kill,
\* whenever the user started it.
C20_UserChromeNeverKilled == killed \cap UserPids = {}

\* C21: after reset() returned True, storage.json, ItemTable and the
\* machineId file all hold the identifiers generated in that run.
C21_StoresHoldSameIds ==
    (rPc = "returned" /\ resetRet = "True") => \A st \in IdStores : idsIn[st] = resets

\* C22: over any number of runs the backup of a file holds what the file held
\* before the first run, never text a run has written.
C22_BackupKeepsOriginal == \A f \in ResetFiles : backup[f] # "written"

\* C23: a patch step run a second time on a file it has patched leaves the
\* text the first run left.
C23_PatchIdempotent ==
    (Len(jsRuns) = 2 /\ jsRuns[1].ret = "True") => jsRuns[2].text = jsRuns[1].text

\* main.js holds the validateDeviceId body that resolves "true"
ValidatePatched(t) ==
    \E i \in 1 .. Len(t) - 1 : t[i] = "validateHead" /\ t[i + 1] = "resolveTrue"

\* C24: when modify_main_js of reset_machine_manual.py has returned True,
\* main.js holds the patched validateDeviceId body.
C24_TrueMeansValidatePatched ==
    (jsFn = ManualMainJs /\ jsRuns # <<>> /\ jsRuns[Len(jsRuns)].ret = "True")
        => ValidatePatched(jsText)

\* C25: a handler returns (True, info) only with info the dictionary of
\* email and token, and (False, None) otherwise.
C25_HandlerReturnsDictOrNone ==
    oPc \in {"returned", "done"} /\ handlerRet # NoRet =>
        \/ handlerRet = [success |-> "True", info |-> "dict"]
        \/ handlerRet = [success |-> "False", info |-> "None"]

\* the options config.ini holds, none of them for a missing file
OptionsOf(f) == IF f.exists THEN ConfigRead(f.lines) ELSE EmptyConfig

\* C26: the start of the program leaves every option that config.ini holds
\* at its value.
C26_StartupKeepsValues ==
    [][cfgOp' = "main" /\ cfgOps' # cfgOps =>
          \A k \in Keys : OptionsOf(cfgFile)[k].set => OptionsOf(cfgFile')[k] = OptionsOf(cfgFile)[k]]_vars

====
